---- MODULE Spec2Model ----
(***************************************************************************)
(* A model of the HOPE hierarchical sequence model (logos-42/HOPE):        *)
(* the nested multi-timescale forward pass and its carried state           *)
(* (src/model/hope.rs), the continuum memory (src/model/continuum_mem.rs), *)
(* the self-modification module (src/model/self_modify.rs), the dual-rate  *)
(* optimizer (src/model/optimizer.rs), configuration validation            *)
(* (src/config.rs), the training step (src/training/trainer.rs), the text *)
(* and book data loaders and the character tokenizer (src/data/) and the   *)
(* HTML stripping of the EPUB parser (src/utils/epub_parser.rs).           *)
(*                                                                         *)
(* Tensors.  A tensor is a record [dims, v]: its shape and its contents.   *)
(* The arithmetic of the code is elementwise, so the contents are one      *)
(* value.  <<"num", n, d>> is the exact rational n/d.  The learned layers  *)
(* (embeddings, transformer encoders, attention, the weight-modification   *)
(* network, the output head) and the loss are functions the source does    *)
(* not fix, or that mix the elements of a tensor: each is modelled by a    *)
(* fixed affine map of its inputs into the prime field                     *)
(* Z_P, written <<"mod", k>>, so that a layer's output changes whenever    *)
(* one of its inputs does.  Arithmetic on two rationals is exact; once a   *)
(* layer output is involved it is the field's (1/span is span's inverse).  *)
(* f32 rounding is not modelled.                                           *)
(***************************************************************************)
EXTENDS Integers, Sequences, FiniteSets, TLC

VARIABLES
    model,      \* the HopeModel the sequences run on (immutable after new)
    carry,      \* carry[s]: Option<HopeCarry> held by the caller of sequence s
    output,     \* output[s]: Option<HopeOutput> of the sequence's last forward
    events,     \* events[s]: what the last forward call of s did, in order
    fed,        \* fed[s]: the token batches handed to forward for s so far
    trainer,    \* the HopeTrainer and what its train_step calls passed around
    memory,     \* a ContinuumMemory module with its state, driven directly
    optimizer,  \* a DeepOptimizer with its DeepOptimizerState
    self_modify,\* a SelfModifyModule with its state, driven directly
    loader,     \* a data loader and the batches it has yielded
    tokenizer,  \* a CharTokenizer with the texts it has encoded and decoded
    parser      \* an HTML fragment and what strip_html_tags made of it

vars == <<model, carry, output, events, fed, trainer, memory, optimizer,
          self_modify, loader, tokenizer, parser>>

(***************************************************************************)
(* Bounds of the model.                                                    *)
(***************************************************************************)
MaxCalls == 2        \* forward calls per sequence
MaxTrainSteps == 3   \* train_step calls
MaxMemUpdates == 2   \* direct ContinuumMemory::update calls
MaxOptSteps == 4     \* calls on a DeepOptimizer
MaxSyncSteps == 130  \* update_fast_params calls of the long run
MaxModifyCalls == 3  \* direct compute_update_rule calls
MaxTokens == 8       \* tokens of a data loader's corpus
MaxTextLen == 2      \* characters of a text given to the tokenizer
MaxFragments == 3    \* tags and pieces of text of an HTML document

SeqIds == {"A", "B"}
Tokens == {1, 2}          \* distinct token batches
BatchSizes == {1, 2}

None == <<>>
Some(x) == <<x>>
IsSome(o) == Len(o) = 1
Unwrap(o) == o[1]

(***************************************************************************)
(* Exact rationals <<n, d>>, d > 0, in lowest terms.                       *)
(***************************************************************************)
RECURSIVE GCD(_, _)
GCD(a, b) == IF b = 0 THEN a ELSE GCD(b, a % b)

RatNorm(n, d) ==
    LET g == GCD(IF n < 0 THEN -n ELSE n, d)
    IN  IF n = 0 THEN <<0, 1>> ELSE <<n \div g, d \div g>>

RatAdd(p, q) ==
    LET g == GCD(p[2], q[2])
        l == (p[2] \div g) * q[2]
    IN  RatNorm(p[1] * (l \div p[2]) + q[1] * (l \div q[2]), l)

RatMul(p, q) ==
    LET a == RatNorm(p[1], q[2])
        b == RatNorm(q[1], p[2])
    IN  RatNorm(a[1] * b[1], a[2] * b[2])

RatSub(p, q) == RatAdd(p, <<-q[1], q[2]>>)
RatLeq(p, q) == p[1] * q[2] <= q[1] * p[2]
RatInt(n) == <<n, 1>>
RatZero == RatInt(0)
RatOne == RatInt(1)

(***************************************************************************)
(* Tensor contents and the tensor engine's elementwise operations.         *)
(***************************************************************************)
P == 2^13 - 1      \* a prime: the field of the learned layers' outputs

RECURSIVE ModPow(_, _)
ModPow(a, e) ==
    IF e = 0 THEN 1
    ELSE LET h == ModPow(a, e \div 2)
             sq == (h * h) % P
         IN  IF e % 2 = 0 THEN sq ELSE (sq * (a % P)) % P

ModInv(a) == ModPow(a % P, P - 2)

Num(r) == <<"num", r[1], r[2]>>
Mod(k) == <<"mod", k % P>>
IsNum(v) == v[1] = "num"
RatOf(v) == <<v[2], v[3]>>
RatToField(r) == ((((r[1] % P) + P) % P) * ModInv(r[2])) % P
ToField(v) == IF IsNum(v) THEN RatToField(RatOf(v)) ELSE v[2]

VAdd(a, b) ==
    IF IsNum(a) /\ IsNum(b) THEN Num(RatAdd(RatOf(a), RatOf(b)))
    ELSE Mod(ToField(a) + ToField(b))

VSub(a, b) ==
    IF IsNum(a) /\ IsNum(b) THEN Num(RatSub(RatOf(a), RatOf(b)))
    ELSE Mod(ToField(a) + P - ToField(b))

VScale(a, r) ==
    IF IsNum(a) THEN Num(RatMul(RatOf(a), r))
    ELSE Mod(ToField(a) * RatToField(r))

\* The output of learned layer number id on the inputs args (contents):
\* id + sum of 31^j * args[j] in the field, affine and injective in each input.
RECURSIVE LayerSum(_, _)
LayerSum(acc, args) ==
    IF args = <<>> THEN acc
    ELSE LayerSum((acc * 31 + ToField(Head(args)) + 1) % P, Tail(args))

Layer(id, args) == Mod(LayerSum(id % P, args))

Tensor(dims, v) == [dims |-> dims, v |-> v]
Zeros(dims) == Tensor(dims, Num(RatZero))
\* x + y, x - y of two tensors of one shape; x * r for a scalar r
TAdd(x, y) == Tensor(x.dims, VAdd(x.v, y.v))
TSub(x, y) == Tensor(x.dims, VSub(x.v, y.v))
TScale(x, r) == Tensor(x.dims, VScale(x.v, r))

\* The learned layers, each numbered apart from the others: by kind, by
\* level (the encoders) and by the version of the parameters it holds.
LayerKinds ==
    <<"embed", "head", "retrieve", "meta_network", "weight_mod", "encoder",
      "cross_entropy">>

LayerNumber(kind, level, params) ==
    (CHOOSE i \in 1..Len(LayerKinds) : LayerKinds[i] = kind)
        + 8 * level + 64 * params

(***************************************************************************)
(* Configuration (src/config.rs).  f32 fields are rationals.               *)
(***************************************************************************)
ContinuumMemConfig(enabled, us, sh, mid, long, epi) ==
    [enabled |-> enabled, ultra_short_span |-> us, short_span |-> sh,
     mid_span |-> mid, long_span |-> long, episodic_span |-> epi]

\* impl Default for ContinuumMemConfig
ContinuumMemConfig_default == ContinuumMemConfig(TRUE, 2, 8, 32, 128, 512)

\* A failed assert! panics: validation accepts exactly when every assert holds.
ContinuumMemConfig_validate(c) ==
    c.enabled =>
        /\ c.ultra_short_span > 0
        /\ c.short_span >= c.ultra_short_span
        /\ c.mid_span >= c.short_span
        /\ c.long_span >= c.mid_span
        /\ c.episodic_span >= c.long_span

SelfModifyConfig(enabled, meta_lr, freq, dim) ==
    [enabled |-> enabled, meta_lr |-> meta_lr, update_frequency |-> freq,
     weight_mod_dim |-> dim]

\* impl Default for SelfModifyConfig
SelfModifyConfig_default == SelfModifyConfig(TRUE, <<1, 100000>>, 8, 128)

SelfModifyConfig_validate(c) ==
    c.enabled =>
        /\ RatLeq(RatZero, c.meta_lr) /\ c.meta_lr # RatZero
        /\ c.update_frequency > 0
        /\ c.weight_mod_dim > 0

DeepOptimizerConfig(enabled, fls, sls, fe, se, interval, dim) ==
    [enabled |-> enabled, fast_lr_scale |-> fls, slow_lr_scale |-> sls,
     fast_ema |-> fe, slow_ema |-> se, sync_interval |-> interval,
     gradient_compression_dim |-> dim]

\* impl Default for DeepOptimizerConfig
DeepOptimizerConfig_default ==
    DeepOptimizerConfig(TRUE, RatOne, <<1, 10>>, <<9, 10>>, <<99, 100>>, 64, 256)

\* Faulty variant: only the learning-rate scales are checked.
DeepOptimizerConfig_validate_scales_only(c) ==
    c.enabled =>
        /\ RatLeq(RatZero, c.fast_lr_scale) /\ c.fast_lr_scale # RatZero
        /\ RatLeq(RatZero, c.slow_lr_scale) /\ c.slow_lr_scale # RatZero

DeepOptimizerConfig_validate(c) ==
    c.enabled =>
        /\ RatLeq(RatZero, c.fast_ema) /\ RatLeq(c.fast_ema, RatOne)
        /\ RatLeq(RatZero, c.slow_ema) /\ RatLeq(c.slow_ema, RatOne)
        /\ c.sync_interval > 0
        /\ RatLeq(RatZero, c.fast_lr_scale) /\ c.fast_lr_scale # RatZero
        /\ RatLeq(RatZero, c.slow_lr_scale) /\ c.slow_lr_scale # RatZero
        /\ c.gradient_compression_dim > 0

\* HopeConfig::validate.  hidden_size % num_heads panics on num_heads = 0
\* (division by zero) before the num_heads assert is reached: rejected too.
HopeConfig_validate(c) ==
    /\ c.hidden_size > 0
    /\ c.num_heads # 0
    /\ c.hidden_size % c.num_heads = 0
    /\ c.vocab_size > 0
    /\ c.seq_len > 0
    /\ c.num_heads > 0
    /\ c.num_layers > 0
    /\ c.num_levels > 0
    /\ c.level_timescales # <<>>
    /\ Len(c.level_timescales) = c.num_levels
    /\ ContinuumMemConfig_validate(c.continuum_mem)
    /\ SelfModifyConfig_validate(c.self_modify)
    /\ DeepOptimizerConfig_validate(c.deep_optimizer)

(***************************************************************************)
(* The configurations the model is built from: small architectures, with   *)
(* hierarchies of one to three levels, each module switched on and off,    *)
(* and some configurations that validation rejects.                        *)
(***************************************************************************)
LevelTimescaleChoices ==
    {<<1>>, <<2>>, <<1, 2>>, <<2, 1>>, <<0, 2>>, <<1, 1, 1>>}

ContinuumMemChoices ==
    { ContinuumMemConfig_default,
      ContinuumMemConfig(FALSE, 2, 8, 32, 128, 512),
      ContinuumMemConfig(TRUE, 0, 8, 32, 128, 512),
      ContinuumMemConfig(TRUE, 2, 8, 4, 128, 512) }

SelfModifyChoices ==
    { SelfModifyConfig(TRUE, <<1, 100000>>, 8, 3),
      SelfModifyConfig(FALSE, <<1, 100000>>, 8, 3),
      SelfModifyConfig(TRUE, <<1, 100000>>, 8, 0),
      SelfModifyConfig(TRUE, <<1, 100000>>, 0, 3),
      SelfModifyConfig(TRUE, RatZero, 8, 3) }

DeepOptimizerChoices ==
    { DeepOptimizerConfig_default,
      DeepOptimizerConfig(TRUE, RatOne, <<1, 10>>, <<3, 2>>, <<99, 100>>, 64, 256),
      DeepOptimizerConfig(TRUE, RatOne, <<1, 10>>, <<9, 10>>, <<-1, 100>>, 64, 256),
      DeepOptimizerConfig(TRUE, RatOne, <<1, 10>>, <<9, 10>>, <<99, 100>>, 0, 256),
      DeepOptimizerConfig(TRUE, RatOne, <<1, 10>>, <<9, 10>>, <<99, 100>>, 64, 0) }

HopeConfigChoices ==
    { [hidden_size |-> hs, vocab_size |-> 5, seq_len |-> 3, num_heads |-> nh,
       num_layers |-> 1, ff_multiplier |-> RatInt(4), dropout |-> <<1, 10>>,
       num_levels |-> nl, level_timescales |-> ts,
       continuum_mem |-> cm, self_modify |-> sm,
       deep_optimizer |-> do] :
        hs \in {2, 3}, nh \in {0, 2}, nl \in {1, 2, 3},
        ts \in LevelTimescaleChoices,
        cm \in ContinuumMemChoices, sm \in SelfModifyChoices,
        do \in DeepOptimizerChoices }

(***************************************************************************)
(* ContinuumMemory (src/model/continuum_mem.rs).                           *)
(***************************************************************************)
\* ContinuumMemory::new: validates, then creates the projections.  The
\* result is None when validation panics.
ContinuumMemory_new(config) ==
    IF ContinuumMemConfig_validate(config)
    THEN Some([config |-> config, params |-> 0])
    ELSE None

ContinuumMemory_init_state(batch, seq_len, hidden_size) ==
    LET zeros == Zeros(<<batch, seq_len, hidden_size>>)
    IN  [ultra_short |-> zeros, short |-> zeros, mid |-> zeros,
         long |-> zeros, episodic |-> zeros]

compute_alpha(span) ==
    IF span = 0 THEN RatOne
    ELSE LET a == <<1, span>>     \* 1.0 / span, then clamp(0.0, 1.0)
         IN  IF RatLeq(a, RatZero) THEN RatZero
             ELSE IF RatLeq(RatOne, a) THEN RatOne ELSE a

\* Faulty variant: the weights of the old and the new value are exchanged.
ema_update_swapped(old, new, alpha) ==
    LET one_minus_alpha == RatSub(RatOne, alpha)
    IN  TAdd(TScale(old, alpha), TScale(new, one_minus_alpha))

ema_update(old, new, alpha) ==
    LET one_minus_alpha == RatSub(RatOne, alpha)
    IN  TAdd(TScale(old, one_minus_alpha), TScale(new, alpha))

update(mem, state, new_hidden) ==
    IF ~mem.config.enabled THEN state
    ELSE [ultra_short |-> new_hidden,
          short |-> ema_update(state.short, new_hidden,
                               compute_alpha(mem.config.short_span)),
          mid |-> ema_update(state.mid, new_hidden,
                             compute_alpha(mem.config.mid_span)),
          long |-> ema_update(state.long, new_hidden,
                              compute_alpha(mem.config.long_span)),
          episodic |-> ema_update(state.episodic, new_hidden,
                                  compute_alpha(mem.config.episodic_span))]

\* Faulty variant: the early return of a disabled memory is missing.
retrieve_unguarded(mem, state, query) ==
    LET attended ==
            Tensor(query.dims,
                   Layer(LayerNumber("retrieve", 0, mem.params),
                         <<query.v, state.ultra_short.v, state.short.v,
                           state.mid.v, state.long.v, state.episodic.v>>))
    IN  TAdd(query, attended)

\* query + attention of the projected query over the five banks; the
\* projections, normalisation and softmax are learned or nonlinear.
retrieve(mem, state, query) ==
    IF ~mem.config.enabled THEN query
    ELSE LET attended ==
                 Tensor(query.dims,
                        Layer(LayerNumber("retrieve", 0, mem.params),
                              <<query.v, state.ultra_short.v, state.short.v,
                                state.mid.v, state.long.v, state.episodic.v>>))
         IN  TAdd(query, attended)

(***************************************************************************)
(* SelfModifyModule (src/model/self_modify.rs).                            *)
(***************************************************************************)
SelfModifyModule_new(config) ==
    IF SelfModifyConfig_validate(config)
    THEN Some([config |-> config, params |-> 0])
    ELSE None

SelfModify_init_state(sm, batch) ==
    [meta_state |-> Zeros(<<batch, sm.config.weight_mod_dim>>),
     update_count |-> 0]

\* Faulty variant: the activation is missing and the network's output is
\* not bounded; here one of -15 .. 15.
tanh_missing(x) == Num(RatInt((ToField(x) % 31) - 15))

\* tanh(x): a value of [-1, 1] fixed by x; here one of -1, 0, 1.
tanh(x) == Num(RatInt((ToField(x) % 3) - 1))

\* tanh(layer3(relu(layer2(relu(layer1(hidden[:, 0, :]))))))
update_rule(sm, hidden) ==
    Tensor(<<hidden.dims[1], sm.config.weight_mod_dim>>,
           tanh(Layer(LayerNumber("meta_network", 0, sm.params),
                      <<hidden.v>>)))

compute_update_rule(sm, hidden, state) ==
    IF ~sm.config.enabled
    THEN Zeros(<<hidden.dims[1], sm.config.weight_mod_dim>>)
    ELSE TAdd(TScale(state.meta_state, <<9, 10>>),
              TScale(update_rule(sm, hidden), <<1, 10>>))

\* Faulty variant: the early return of a disabled module is missing.
apply_weight_modification_unguarded(sm, hidden, meta_state) ==
    Tensor(hidden.dims,
           Layer(LayerNumber("weight_mod", 0, sm.params),
                 <<hidden.v, meta_state.v>>))

\* norm(hidden + weight_mod_network(hidden, meta_state) * 0.1)
apply_weight_modification(sm, hidden, meta_state) ==
    IF ~sm.config.enabled THEN hidden
    ELSE Tensor(hidden.dims,
                Layer(LayerNumber("weight_mod", 0, sm.params),
                      <<hidden.v, meta_state.v>>))

should_update(sm, state) ==
    sm.config.enabled /\ (state.update_count % sm.config.update_frequency = 0)

(***************************************************************************)
(* HopeModel (src/model/hope.rs).                                          *)
(***************************************************************************)
Min(a, b) == IF a <= b THEN a ELSE b

\* Faulty variant: the memory module is created whether or not it is enabled.
HopeModel_new_always_memory(config) ==
    IF ~HopeConfig_validate(config) THEN None
    ELSE Some([config |-> config,
               params |-> 0,
               level_encoders |-> [i \in 1..config.num_levels |-> i - 1],
               continuum_memory |-> ContinuumMemory_new(config.continuum_mem),
               self_modify |->
                   IF config.self_modify.enabled
                   THEN SelfModifyModule_new(config.self_modify)
                   ELSE None])

\* HopeModel::new: validation first; None when it panics.  params names the
\* current values of the learned parameters (changed only by an optimizer step).
HopeModel_new(config) ==
    IF ~HopeConfig_validate(config) THEN None
    ELSE Some([config |-> config,
               params |-> 0,
               level_encoders |-> [i \in 1..config.num_levels |-> i - 1],
               continuum_memory |->
                   IF config.continuum_mem.enabled
                   THEN ContinuumMemory_new(config.continuum_mem)
                   ELSE None,
               self_modify |->
                   IF config.self_modify.enabled
                   THEN SelfModifyModule_new(config.self_modify)
                   ELSE None])

\* Faulty variant: the level states are allocated [batch, hidden_size, seq_len].
initial_carry_swapped(m, batch) ==
    [level_states |->
         [i \in 1..m.config.num_levels |->
             Zeros(<<batch, m.config.hidden_size, m.config.seq_len>>)],
     continuum_memory |->
         IF IsSome(m.continuum_memory)
         THEN Some(ContinuumMemory_init_state(batch, m.config.seq_len,
                                              m.config.hidden_size))
         ELSE None,
     self_modify |->
         IF IsSome(m.self_modify)
         THEN Some(SelfModify_init_state(Unwrap(m.self_modify), batch))
         ELSE None,
     step_count |-> 0]

initial_carry(m, batch) ==
    LET hidden_size == m.config.hidden_size
        seq_len == m.config.seq_len
    IN  [level_states |->
             [i \in 1..m.config.num_levels |->
                 Zeros(<<batch, seq_len, hidden_size>>)],
         continuum_memory |->
             IF IsSome(m.continuum_memory)
             THEN Some(ContinuumMemory_init_state(batch, seq_len, hidden_size))
             ELSE None,
         self_modify |->
             IF IsSome(m.self_modify)
             THEN Some(SelfModify_init_state(Unwrap(m.self_modify), batch))
             ELSE None,
         step_count |-> 0]

\* token_embed(tokens) * embed_scale + pos_embed(0..seq_len)
embed(m, input) ==
    Tensor(<<input.dims[1], input.dims[2], m.config.hidden_size>>,
           Layer(LayerNumber("embed", 0, m.params), <<input.v>>))

\* level_encoders[level_idx].forward(level_input)
encoder_forward(m, level_idx, level_input) ==
    Tensor(level_input.dims,
           Layer(LayerNumber("encoder", m.level_encoders[level_idx + 1], m.params),
                 <<level_input.v>>))

\* head.forward(hidden)
head_forward(m, hidden) ==
    Tensor(<<hidden.dims[1], hidden.dims[2], m.config.vocab_size>>,
           Layer(LayerNumber("head", 0, m.params), <<hidden.v>>))

\* Faulty variant: the meta-state update runs only when should_update allows it.
self_modify_step_gated(m, level_idx, encoded, st) ==
    IF IsSome(m.self_modify) /\ IsSome(st.self_modify)
       /\ should_update(Unwrap(m.self_modify), Unwrap(st.self_modify))
    THEN LET sm == Unwrap(m.self_modify)
             sm_state == Unwrap(st.self_modify)
             stored == [meta_state |-> compute_update_rule(sm, encoded, sm_state),
                        update_count |-> sm_state.update_count + 1]
         IN  [level_state |->
                  apply_weight_modification(sm, encoded, stored.meta_state),
              self_modify |-> Some(stored),
              events |-> st.events]
    ELSE [level_state |-> encoded,
          self_modify |-> st.self_modify,
          events |-> st.events]

\* Faulty variant: the weight modification runs on the meta-state the
\* iteration started with, the new one is stored afterwards.
self_modify_step_stale(m, level_idx, encoded, st) ==
    IF IsSome(m.self_modify) /\ IsSome(st.self_modify)
    THEN LET sm == Unwrap(m.self_modify)
             sm_state == Unwrap(st.self_modify)
             meta_state == compute_update_rule(sm, encoded, sm_state)
             stored == [meta_state |-> meta_state,
                        update_count |-> sm_state.update_count + 1]
         IN  [level_state |->
                  apply_weight_modification(sm, encoded, sm_state.meta_state),
              self_modify |-> Some(stored),
              events |-> st.events \o
                  << <<"compute_update_rule", level_idx, encoded,
                       sm_state.meta_state, meta_state>>,
                     <<"apply_weight_modification", level_idx, encoded,
                       sm_state.meta_state>> >>]
    ELSE [level_state |-> encoded,
          self_modify |-> st.self_modify,
          events |-> st.events]

\* The self-modification branch of one inner iteration (lines 169-183).
\* st = [level_state, self_modify, events]
\* An event is the call's name, the level, its arguments and, for
\* compute_update_rule, the meta-state it returned.
self_modify_step(m, level_idx, encoded, st) ==
    IF IsSome(m.self_modify) /\ IsSome(st.self_modify)
    THEN LET sm == Unwrap(m.self_modify)
             sm_state == Unwrap(st.self_modify)
             meta_state == compute_update_rule(sm, encoded, sm_state)
             stored == [meta_state |-> meta_state,
                        update_count |-> sm_state.update_count + 1]
         IN  [level_state |->
                  apply_weight_modification(sm, encoded, stored.meta_state),
              self_modify |-> Some(stored),
              events |-> st.events \o
                  << <<"compute_update_rule", level_idx, encoded,
                       sm_state.meta_state, meta_state>>,
                     <<"apply_weight_modification", level_idx, encoded,
                       stored.meta_state>> >>]
    ELSE [level_state |-> encoded,
          self_modify |-> st.self_modify,
          events |-> st.events]

\* One iteration of the timescale loop (lines 163-185).
inner_step(m, level_idx, prev_level_output, st) ==
    LET level_input == TAdd(st.level_state, prev_level_output)
        encoded == encoder_forward(m, level_idx, level_input)
    IN  self_modify_step(m, level_idx, encoded,
            [st EXCEPT !.events = Append(@, <<"encoder", level_idx, encoded>>)])

\* Faulty variant: for _ in 0..=*timescale, one iteration too many.
RECURSIVE timescale_loop_inclusive(_, _, _, _, _)
timescale_loop_inclusive(m, level_idx, prev_level_output, n, st) ==
    IF n < 0 THEN st
    ELSE timescale_loop_inclusive(m, level_idx, prev_level_output, n - 1,
                                  inner_step(m, level_idx, prev_level_output, st))

\* for _ in 0..*timescale (line 162)
RECURSIVE timescale_loop(_, _, _, _, _)
timescale_loop(m, level_idx, prev_level_output, n, st) ==
    IF n = 0 THEN st
    ELSE timescale_loop(m, level_idx, prev_level_output, n - 1,
                        inner_step(m, level_idx, prev_level_output, st))

\* Faulty variant: step_count is incremented once per level as well.
write_back_counting(level_idx, st, done) ==
    [carry |-> [st.carry EXCEPT
                    !.level_states[level_idx + 1] = done.level_state,
                    !.self_modify = done.self_modify,
                    !.step_count = @ + 1],
     prev_level_output |-> done.level_state,
     events |-> done.events]

\* Lines 188-189: the level's final state is written to the carry and is
\* the input of the next level.  done = [level_state, self_modify, events]
write_back(level_idx, st, done) ==
    [carry |-> [st.carry EXCEPT
                    !.level_states[level_idx + 1] = done.level_state,
                    !.self_modify = done.self_modify],
     prev_level_output |-> done.level_state,
     events |-> done.events]

\* Faulty variant: the level starts from the carried state of the level above it.
level_step_above(m, level_idx, st) ==
    write_back(level_idx, st,
        timescale_loop(m, level_idx, st.prev_level_output,
            m.config.level_timescales[level_idx + 1],
            [level_state |->
                 st.carry.level_states[Min(level_idx + 2,
                                           Len(st.carry.level_states))],
             self_modify |-> st.carry.self_modify,
             events |-> st.events]))

\* The body of the level loop (lines 159-189).
\* st = [carry, prev_level_output, events]
level_step(m, level_idx, st) ==
    write_back(level_idx, st,
        timescale_loop(m, level_idx, st.prev_level_output,
            m.config.level_timescales[level_idx + 1],
            [level_state |-> st.carry.level_states[level_idx + 1],
             self_modify |-> st.carry.self_modify,
             events |-> st.events]))

\* level_encoders.iter().zip(level_timescales.iter()).enumerate() (line 155)
RECURSIVE level_loop(_, _, _)
level_loop(m, level_idx, st) ==
    IF level_idx >= Min(Len(m.level_encoders), Len(m.config.level_timescales))
    THEN st
    ELSE level_loop(m, level_idx + 1, level_step(m, level_idx, st))

\* Faulty variant: the memory state is read from one shared place (the first
\* sequence's) instead of the carry handed in.
retrieve_step_shared(m, c, hidden) ==
    IF IsSome(m.continuum_memory) /\ IsSome(c.continuum_memory)
    THEN LET shared == IF IsSome(carry["A"]) THEN Unwrap(carry["A"]) ELSE c
         IN  [hidden |-> retrieve(Unwrap(m.continuum_memory),
                                  Unwrap(shared.continuum_memory), hidden),
              events |-> << <<"retrieve", Unwrap(shared.continuum_memory)>> >>]
    ELSE [hidden |-> hidden, events |-> <<>>]

\* Lines 146-151: retrieval from the memory, when the model has one and the
\* carry holds its state.
retrieve_step(m, c, hidden) ==
    IF IsSome(m.continuum_memory) /\ IsSome(c.continuum_memory)
    THEN [hidden |-> retrieve(Unwrap(m.continuum_memory),
                              Unwrap(c.continuum_memory), hidden),
          events |-> << <<"retrieve", Unwrap(c.continuum_memory)>> >>]
    ELSE [hidden |-> hidden, events |-> <<>>]

\* Faulty variant: the memory is updated from the first level's state.
update_step_first_level(m, st) ==
    IF IsSome(m.continuum_memory) /\ IsSome(st.carry.continuum_memory)
    THEN [st EXCEPT
             !.carry.continuum_memory =
                 Some(update(Unwrap(m.continuum_memory),
                             Unwrap(st.carry.continuum_memory),
                             st.carry.level_states[1])),
             !.events = Append(@, <<"update", st.carry.level_states[1]>>)]
    ELSE st

\* Lines 192-197: the memory update from the last level's output.
update_step(m, st) ==
    IF IsSome(m.continuum_memory) /\ IsSome(st.carry.continuum_memory)
    THEN [st EXCEPT
             !.carry.continuum_memory =
                 Some(update(Unwrap(m.continuum_memory),
                             Unwrap(st.carry.continuum_memory),
                             st.prev_level_output)),
             !.events = Append(@, <<"update", st.prev_level_output>>)]
    ELSE st

\* HopeModel::forward: the carry and output it returns, and what it did.
forward(m, input, c) ==
    LET r == retrieve_step(m, c, embed(m, input))
        l == level_loop(m, 0, [carry |-> c,
                               prev_level_output |-> r.hidden,
                               events |-> r.events])
        u == update_step(m, l)
    IN  [carry |-> [u.carry EXCEPT !.step_count = @ + 1],
         output |-> [logits |-> head_forward(m, u.prev_level_output),
                     hidden_states |-> u.prev_level_output],
         events |-> u.events]

(***************************************************************************)
(* Callers that thread a carry per sequence.                               *)
(***************************************************************************)
ValidModels ==
    {Unwrap(HopeModel_new(c)) :
        c \in {x \in HopeConfigChoices : IsSome(HopeModel_new(x))}}

\* A token batch [batch, seq_len] of integer ids.
TokenBatch(batch, seq_len, t) == Tensor(<<batch, seq_len>>, Num(RatInt(t)))

BatchOf(c) == c.level_states[1].dims[1]

Idle == <<>>

Init ==
    /\ tokenizer = Idle /\ parser = Idle
    /\ model \in ValidModels
    /\ carry = [s \in SeqIds |-> None]
    /\ output = [s \in SeqIds |-> None]
    /\ events = [s \in SeqIds |-> <<>>]
    /\ fed = [s \in SeqIds |-> <<>>]
    /\ trainer = Idle
    /\ memory = Idle
    /\ optimizer = Idle
    /\ self_modify = Idle
    /\ loader = Idle

\* The caller of sequence s starts it: initial_carry(batch).
InitialCarry(s, batch) ==
    /\ carry[s] = None
    /\ carry' = [carry EXCEPT ![s] = Some(initial_carry(model, batch))]
    /\ UNCHANGED <<model, output, events, fed, trainer, memory, optimizer,
                 self_modify, loader, tokenizer, parser>>

\* The caller of sequence s hands its carry and the next token batch to
\* forward and keeps the carry it returns.  A batch of another shape than
\* the carried state panics in the tensor engine (level_state + prev_level_output).
Forward(s, t) ==
    /\ IsSome(carry[s])
    /\ Len(fed[s]) < MaxCalls
    /\ LET c == Unwrap(carry[s])
           input == TokenBatch(BatchOf(c), model.config.seq_len, t)
           r == forward(model, input, c)
       IN  /\ carry' = [carry EXCEPT ![s] = Some(r.carry)]
           /\ output' = [output EXCEPT ![s] = Some(r.output)]
           /\ events' = [events EXCEPT ![s] = r.events]
           /\ fed' = [fed EXCEPT ![s] = Append(@, input)]
    /\ UNCHANGED <<model, trainer, memory, optimizer,
                 self_modify, loader, tokenizer, parser>>

Next ==
    \/ \E s \in SeqIds, batch \in BatchSizes : InitialCarry(s, batch)
    \/ \E s \in SeqIds, t \in Tokens : Forward(s, t)

Spec == Init /\ [][Next]_vars

(***************************************************************************)
(* HopeTrainer (src/training/trainer.rs).                                  *)
(***************************************************************************)
BatchData(tokens, targets) == [tokens |-> tokens, targets |-> targets]

\* optimizer.step(lr, model, grads): every learned parameter of the model
\* and of its modules gets a new value.
optimizer_step(m) ==
    LET stepped(o) ==
            IF IsSome(o) THEN Some([Unwrap(o) EXCEPT !.params = @ + 1]) ELSE None
    IN  [m EXCEPT !.params = @ + 1,
                  !.continuum_memory = stepped(@),
                  !.self_modify = stepped(@)]

\* loss_fn.forward(logits_flat, targets_flat)
cross_entropy(logits, targets) ==
    Tensor(<<1>>, Layer(LayerNumber("cross_entropy", 0, 0),
                        <<logits.v, targets.v>>))

\* HopeTrainer::train_step on the trainer's model m: the model after the
\* optimizer step, the TrainOutput, and the carry handed to forward and the
\* carry forward returned (which train_step drops).
train_step(m, batch) ==
    LET batch_size == batch.tokens.dims[1]
        c == initial_carry(m, batch_size)
        r == forward(m, batch.tokens, c)
        loss == cross_entropy(r.output.logits, batch.targets)
    IN  [model |-> optimizer_step(m),
         output |-> [loss |-> loss, step |-> 1],
         forward_in |-> c,
         forward_out |-> r.carry]

InitTrain ==
    /\ tokenizer = Idle /\ parser = Idle
    /\ trainer \in
           {[model |-> m, steps |-> 0, output |-> None, forward_in |-> None,
             forward_out |-> None, prev_forward_out |-> None] :
                m \in ValidModels}
    /\ model = Idle /\ carry = Idle /\ output = Idle /\ events = Idle
    /\ fed = Idle /\ memory = Idle /\ optimizer = Idle
    /\ self_modify = Idle /\ loader = Idle

\* The training driver hands the next batch of the sequence to train_step
\* (the targets are the tokens shifted by one position).
TrainStep(batch) ==
    /\ trainer.steps < MaxTrainSteps
    /\ LET r == train_step(trainer.model, batch)
       IN  trainer' = [model |-> r.model,
                       steps |-> trainer.steps + 1,
                       output |-> Some(r.output),
                       forward_in |-> Some(r.forward_in),
                       forward_out |-> Some(r.forward_out),
                       prev_forward_out |-> trainer.forward_out]
    /\ UNCHANGED <<model, carry, output, events, fed, memory, optimizer,
                 self_modify, loader, tokenizer, parser>>

NextTrain ==
    \E b \in BatchSizes, t \in Tokens :
        TrainStep(BatchData(TokenBatch(b, trainer.model.config.seq_len, t),
                            TokenBatch(b, trainer.model.config.seq_len, t + 1)))

SpecTrain == InitTrain /\ [][NextTrain]_vars

(***************************************************************************)
(* TextDataLoader and BookDataLoader (src/data/text_loader.rs,             *)
(* src/data/book_loader.rs).  Both hold the token ids of their corpus and  *)
(* implement DataLoader with the same code.  Positions are the 0-based     *)
(* offsets of the source; tokens[a..b] is SubSeq(tokens, a + 1, b).        *)
(***************************************************************************)
\* Tensor::from_ints(data).reshape(dims)
IntTensor(data, dims) == [dims |-> dims, data |-> data]

\* The loop `for _ in 0..self.batch_size` of next_batch (lines 127-144):
\* the early return keeps the position the loop has reached.
RECURSIVE next_batch_loop(_, _, _, _)
next_batch_loop(l, i, batch_tokens, batch_targets) ==
    IF i >= l.batch_size
    THEN [loader |-> l,
          result |-> Some(BatchData(
                        IntTensor(batch_tokens, <<l.batch_size, l.seq_len>>),
                        IntTensor(batch_targets, <<l.batch_size, l.seq_len>>)))]
    ELSE LET start == l.current_pos
             end == start + l.seq_len + 1
         IN  IF end > Len(l.tokens)
             THEN [loader |-> l, result |-> None]
             ELSE LET sequence == SubSeq(l.tokens, start + 1, end)
                  IN  next_batch_loop(
                          [l EXCEPT !.current_pos = @ + l.seq_len],
                          i + 1,
                          batch_tokens \o SubSeq(sequence, 1, l.seq_len),
                          batch_targets \o SubSeq(sequence, 2, l.seq_len + 1))

\* Faulty variant: the check for a full batch before the loop is missing.
next_batch_unchecked(l) == next_batch_loop(l, 0, <<>>, <<>>)

\* next_batch: the loader after the call and the Option it returns.
next_batch(l) ==
    LET required_len == l.batch_size * (l.seq_len + 1)
    IN  IF l.current_pos + required_len > Len(l.tokens)
        THEN [loader |-> l, result |-> None]
        ELSE next_batch_loop(l, 0, <<>>, <<>>)

reset(l) == [l EXCEPT !.current_pos = 0]

num_batches(l) ==
    LET required_len == l.batch_size * (l.seq_len + 1)
    IN  IF Len(l.tokens) < required_len THEN Some(0)
        ELSE LET available_sequences ==
                     (Len(l.tokens) - l.seq_len) \div l.seq_len
             IN  Some(available_sequences \div l.batch_size)

\* from_tokens / from_preprocessed: the loader over a corpus of n tokens.
DataLoader_new(kind, n, batch_size, seq_len) ==
    [kind |-> kind, tokens |-> [i \in 1..n |-> i],
     batch_size |-> batch_size, seq_len |-> seq_len, current_pos |-> 0]


\* A loader with the history of its calls since it was created or reset:
\* the number of batches it yielded, whether it has returned None, whether
\* it yielded a batch after that, and what the last call returned.
InitLoader ==
    /\ tokenizer = Idle /\ parser = Idle
    /\ loader \in
           {[l |-> DataLoader_new(kind, n, b, sl), yielded |-> 0,
             ended |-> FALSE, some_after_none |-> FALSE, last |-> None] :
                kind \in {"TextDataLoader", "BookDataLoader"},
                n \in 0..MaxTokens, b \in BatchSizes, sl \in {1, 2, 3}}
    /\ model = Idle /\ carry = Idle /\ output = Idle /\ events = Idle
    /\ fed = Idle /\ trainer = Idle /\ memory = Idle
    /\ optimizer = Idle /\ self_modify = Idle

NextBatch ==
    /\ LET r == next_batch(loader.l)
       IN  loader' =
               [l |-> r.loader,
                yielded |-> IF IsSome(r.result) THEN loader.yielded + 1
                            ELSE loader.yielded,
                ended |-> loader.ended \/ ~IsSome(r.result),
                some_after_none |->
                    loader.some_after_none
                        \/ (loader.ended /\ IsSome(r.result)),
                last |-> Some(r.result)]
    /\ UNCHANGED <<model, carry, output, events, fed, trainer, memory,
                   optimizer, self_modify, tokenizer, parser>>

Reset ==
    /\ loader' = [l |-> reset(loader.l), yielded |-> 0, ended |-> FALSE,
                  some_after_none |-> FALSE, last |-> None]
    /\ UNCHANGED <<model, carry, output, events, fed, trainer, memory,
                   optimizer, self_modify, tokenizer, parser>>

NextLoader == NextBatch \/ Reset

SpecLoader == InitLoader /\ [][NextLoader]_vars

(***************************************************************************)
(* CharTokenizer (src/data/tokenizer.rs).  A char is its code point, a     *)
(* text the sequence of its chars, a HashMap a function on its key set.    *)
(***************************************************************************)
NUL == 0               \* '\0'
REPLACEMENT == 65533   \* U+FFFD

insert(map, k, v) ==
    [x \in (DOMAIN map) \cup {k} |-> IF x = k THEN v ELSE map[x]]

RECURSIVE sort_place(_, _)
sort_place(sorted, ch) ==
    IF sorted = <<>> THEN <<ch>>
    ELSE IF ch <= Head(sorted) THEN <<ch>> \o sorted
    ELSE <<Head(sorted)>> \o sort_place(Tail(sorted), ch)

\* chars.sort_unstable()
RECURSIVE sort_unstable(_)
sort_unstable(chars) ==
    IF chars = <<>> THEN <<>>
    ELSE sort_place(sort_unstable(Tail(chars)), Head(chars))

\* chars.dedup(): consecutive equal chars collapse to the first.
RECURSIVE dedup(_)
dedup(chars) ==
    IF Len(chars) <= 1 THEN chars
    ELSE IF chars[1] = chars[2] THEN dedup(Tail(chars))
    ELSE <<chars[1]>> \o dedup(Tail(chars))

\* The loop over the regular characters of from_text (lines 58-64).
RECURSIVE from_text_loop(_, _, _)
from_text_loop(chars, i, tok) ==
    IF i > Len(chars) THEN tok
    ELSE LET ch == chars[i]
         IN  IF ch # NUL /\ ch # REPLACEMENT
             THEN from_text_loop(chars, i + 1,
                      [tok EXCEPT
                          !.char_to_id = insert(@, ch, tok.vocab_size),
                          !.id_to_char = insert(@, tok.vocab_size, ch),
                          !.vocab_size = @ + 1])
             ELSE from_text_loop(chars, i + 1, tok)

\* Faulty variant: an unknown character is encoded as padding.
encode_unknown_as_pad(tok, text) ==
    [i \in 1..Len(text) |->
        IF text[i] \in DOMAIN tok.char_to_id THEN tok.char_to_id[text[i]]
        ELSE tok.pad_id]

\* CharTokenizer::from_text; vocab_size runs as next_id through the loop.
from_text(text) ==
    LET chars == dedup(sort_unstable(text))
        pad_id == 0
        unk_id == 1
    IN  from_text_loop(chars, 1,
            [char_to_id |-> insert(insert(<<>>, NUL, pad_id),
                                   REPLACEMENT, unk_id),
             id_to_char |-> insert(insert(<<>>, pad_id, NUL),
                                   unk_id, REPLACEMENT),
             vocab_size |-> 2,
             unk_id |-> unk_id,
             pad_id |-> pad_id])

encode(tok, text) ==
    [i \in 1..Len(text) |->
        IF text[i] \in DOMAIN tok.char_to_id THEN tok.char_to_id[text[i]]
        ELSE tok.unk_id]

decode(tok, tokens) ==
    LET known == SelectSeq(tokens, LAMBDA id : id \in DOMAIN tok.id_to_char)
    IN  [i \in 1..Len(known) |-> tok.id_to_char[known[i]]]

\* The texts tokenizers are built from and asked to encode.
Texts ==
    LET chars == {NUL, 97, 98, REPLACEMENT}     \* '\0', 'a', 'b', U+FFFD
    IN  UNION {[1..n -> chars] : n \in 0..MaxTextLen}

\* A tokenizer built from a text, the round trip of that text through it
\* and the last text it encoded.
InitTokenizer ==
    /\ model = Idle /\ carry = Idle /\ output = Idle /\ events = Idle
    /\ fed = Idle /\ trainer = Idle /\ memory = Idle /\ optimizer = Idle
    /\ self_modify = Idle /\ loader = Idle /\ parser = Idle
    /\ \E s \in Texts :
           tokenizer = [source |-> s, tok |-> from_text(s), round |-> None,
                        text |-> None, encoded |-> None]

RoundTrip ==
    /\ tokenizer' =
           [tokenizer EXCEPT
               !.round = Some(decode(tokenizer.tok,
                                     encode(tokenizer.tok, tokenizer.source)))]
    /\ UNCHANGED <<model, carry, output, events, fed, trainer, memory,
                   optimizer, self_modify, loader, parser>>

Encode(t) ==
    /\ tokenizer' = [tokenizer EXCEPT !.text = Some(t),
                                      !.encoded = Some(encode(tokenizer.tok, t))]
    /\ UNCHANGED <<model, carry, output, events, fed, trainer, memory,
                   optimizer, self_modify, loader, parser>>

NextTokenizer == RoundTrip \/ \E t \in Texts : Encode(t)

SpecTokenizer == InitTokenizer /\ [][NextTokenizer]_vars

(***************************************************************************)
(* strip_html_tags (src/utils/epub_parser.rs).  A string is the sequence   *)
(* of its characters, each a string of length one.                         *)
(***************************************************************************)
char_to_lowercase(ch) ==
    LET upper == <<"A", "B", "C", "D", "E", "F", "G", "H", "I", "J", "K", "L",
                   "M", "N", "O", "P", "Q", "R", "S", "T", "U", "V", "W", "X",
                   "Y", "Z">>
        lower == <<"a", "b", "c", "d", "e", "f", "g", "h", "i", "j", "k", "l",
                   "m", "n", "o", "p", "q", "r", "s", "t", "u", "v", "w", "x",
                   "y", "z">>
    IN  IF \E k \in 1..Len(upper) : upper[k] = ch
        THEN lower[CHOOSE k \in 1..Len(upper) : upper[k] = ch]
        ELSE ch

to_lowercase(s) == [k \in 1..Len(s) |-> char_to_lowercase(s[k])]

starts_with(s, prefix) ==
    Len(prefix) <= Len(s) /\ SubSeq(s, 1, Len(prefix)) = prefix

\* split_whitespace: the maximal runs of characters that are not whitespace.
RECURSIVE split_whitespace(_, _, _)
split_whitespace(s, k, word) ==
    IF k > Len(s) THEN (IF word = <<>> THEN <<>> ELSE <<word>>)
    ELSE IF s[k] \in {" ", "\t", "\n", "\r"}
         THEN (IF word = <<>> THEN <<>> ELSE <<word>>)
                  \o split_whitespace(s, k + 1, <<>>)
         ELSE split_whitespace(s, k + 1, Append(word, s[k]))

RECURSIVE join(_, _)
join(words, sep) ==
    IF words = <<>> THEN <<>>
    ELSE IF Len(words) = 1 THEN words[1]
    ELSE words[1] \o sep \o join(Tail(words), sep)

\* The body of the loop over the characters for the k-th one (lines 67-87).
\* st = [result, in_tag, in_script_or_style]
strip_char(html, k, st) ==
    LET ch == html[k]
    IN  IF ch = "<"
        THEN LET remaining == to_lowercase(
                                  SubSeq(html, k + 1, Min(k + 10, Len(html))))
             IN  [st EXCEPT
                     !.in_tag = TRUE,
                     !.in_script_or_style =
                         IF starts_with(remaining,
                                        <<"s", "c", "r", "i", "p", "t">>)
                            \/ starts_with(remaining,
                                           <<"s", "t", "y", "l", "e">>)
                         THEN TRUE ELSE @]
        ELSE IF ch = ">"
        THEN [st EXCEPT !.in_tag = FALSE, !.in_script_or_style = FALSE]
        ELSE IF ~st.in_tag /\ ~st.in_script_or_style
        THEN [st EXCEPT !.result = Append(@, ch)]
        ELSE st

RECURSIVE strip_loop(_, _, _)
strip_loop(html, k, st) ==
    IF k > Len(html) THEN st
    ELSE strip_loop(html, k + 1, strip_char(html, k, st))

strip_html_tags(html) ==
    LET st == strip_loop(html, 1, [result |-> <<>>, in_tag |-> FALSE,
                                   in_script_or_style |-> FALSE])
    IN  join(split_whitespace(st.result, 1, <<>>), <<" ">>)

\* The documents given to strip_html_tags: up to MaxFragments pieces, each
\* a tag or a piece of text.
Fragment(kind, name, chars) == [kind |-> kind, name |-> name, chars |-> chars]

Fragments ==
    { Fragment("open", "p", <<"<", "p", ">">>),
      Fragment("close", "p", <<"<", "/", "p", ">">>),
      Fragment("open", "script", <<"<", "s", "c", "r", "i", "p", "t", ">">>),
      Fragment("open", "script", <<"<", "S", "c", "r", "i", "p", "t", ">">>),
      Fragment("close", "script",
               <<"<", "/", "s", "c", "r", "i", "p", "t", ">">>),
      Fragment("open", "style", <<"<", "s", "t", "y", "l", "e", ">">>),
      Fragment("close", "style", <<"<", "/", "s", "t", "y", "l", "e", ">">>),
      Fragment("text", "", <<"T">>),
      Fragment("text", "", <<"a", "l">>),
      Fragment("text", "", <<" ">>) }

Documents == UNION {[1..n -> Fragments] : n \in 0..MaxFragments}

RECURSIVE concat(_)
concat(doc) ==
    IF doc = <<>> THEN <<>> ELSE Head(doc).chars \o concat(Tail(doc))

InitParser ==
    /\ model = Idle /\ carry = Idle /\ output = Idle /\ events = Idle
    /\ fed = Idle /\ trainer = Idle /\ memory = Idle /\ optimizer = Idle
    /\ self_modify = Idle /\ loader = Idle /\ tokenizer = Idle
    /\ \E doc \in Documents :
           parser = [doc |-> doc, html |-> concat(doc), text |-> None]

StripHtmlTags ==
    /\ parser.text = None
    /\ parser' = [parser EXCEPT !.text = Some(strip_html_tags(parser.html))]
    /\ UNCHANGED <<model, carry, output, events, fed, trainer, memory,
                   optimizer, self_modify, loader, tokenizer>>

SpecParser == InitParser /\ [][StripHtmlTags]_vars

(***************************************************************************)
(* A ContinuumMemory driven directly: update on a state from init_state.   *)
(***************************************************************************)
MemSpanChoices ==
    { ContinuumMemConfig_default,
      ContinuumMemConfig(FALSE, 2, 8, 32, 128, 512),
      ContinuumMemConfig(TRUE, 1, 1, 1, 1, 1),
      ContinuumMemConfig(TRUE, 1, 1, 2, 3, 5),
      ContinuumMemConfig(TRUE, 1, 3, 3, 7, 7),
      ContinuumMemConfig(TRUE, 0, 1, 1, 1, 1),
      ContinuumMemConfig(TRUE, 2, 1, 1, 1, 1) }

\* The new_hidden values handed to update.
NewHiddenChoices ==
    {Num(r) : r \in {<<1, 1>>, <<-2, 1>>, <<3, 2>>, <<1, 3>>, <<0, 1>>}}

MemDims == <<1, 3, 2>>

InitMem ==
    /\ tokenizer = Idle /\ parser = Idle
    /\ memory \in
           {[mem |-> Unwrap(ContinuumMemory_new(c)),
             state |-> ContinuumMemory_init_state(MemDims[1], MemDims[2],
                                                  MemDims[3]),
             updates |-> 0, new_hidden |-> None, before |-> None,
             query |-> None, retrieved |-> None] :
                c \in {x \in MemSpanChoices : IsSome(ContinuumMemory_new(x))}}
    /\ model = Idle /\ carry = Idle /\ output = Idle /\ events = Idle
    /\ fed = Idle /\ trainer = Idle /\ optimizer = Idle
    /\ self_modify = Idle /\ loader = Idle

\* mem.update(&mut state, &new_hidden); before and new_hidden record the call.
MemUpdate(new_hidden) ==
    /\ memory.updates < MaxMemUpdates
    /\ memory' = [memory EXCEPT
                      !.state = update(memory.mem, memory.state, new_hidden),
                      !.updates = @ + 1,
                      !.new_hidden = Some(new_hidden),
                      !.before = Some(memory.state)]
    /\ UNCHANGED <<model, carry, output, events, fed, trainer, optimizer,
                 self_modify, loader, tokenizer, parser>>

\* mem.retrieve(&state, &query); query and retrieved record the call.
MemRetrieve(query) ==
    /\ memory' = [memory EXCEPT
                      !.query = Some(query),
                      !.retrieved =
                          Some(retrieve(memory.mem, memory.state, query))]
    /\ UNCHANGED <<model, carry, output, events, fed, trainer, optimizer,
                 self_modify, loader, tokenizer, parser>>

NextMem ==
    \/ \E v \in NewHiddenChoices : MemUpdate(Tensor(MemDims, v))
    \/ \E v \in NewHiddenChoices : MemRetrieve(Tensor(MemDims, v))

SpecMem == InitMem /\ [][NextMem]_vars

(***************************************************************************)
(* A SelfModifyModule and its state, driven directly the way forward       *)
(* drives them: the result of compute_update_rule is stored as the new     *)
(* meta-state and update_count is incremented; apply_weight_modification   *)
(* is called with the stored meta-state.                                   *)
(***************************************************************************)
SelfModifyModuleChoices ==
    { SelfModifyConfig(en, <<1, 100000>>, 8, dim) :
        en \in BOOLEAN, dim \in {1, 3} }

\* The hidden arrays [batch, 3, 2] handed to the module.
HiddenChoices(batch) ==
    {Tensor(<<batch, 3, 2>>, v) : v \in NewHiddenChoices}

InitSelfModify ==
    /\ tokenizer = Idle /\ parser = Idle
    /\ self_modify \in
           {[sm |-> Unwrap(SelfModifyModule_new(c)), batch |-> b,
             state |-> SelfModify_init_state(Unwrap(SelfModifyModule_new(c)), b),
             hidden |-> None, rule |-> None,
             applied |-> None, modified |-> None] :
                c \in {x \in SelfModifyModuleChoices :
                           IsSome(SelfModifyModule_new(x))},
                b \in BatchSizes}
    /\ model = Idle /\ carry = Idle /\ output = Idle /\ events = Idle
    /\ fed = Idle /\ trainer = Idle /\ memory = Idle
    /\ optimizer = Idle /\ loader = Idle

\* let meta_state = sm.compute_update_rule(&hidden, sm_state);
\* sm_state.meta_state = meta_state; sm_state.update_count += 1;
ComputeUpdateRule(hidden) ==
    /\ self_modify.state.update_count < MaxModifyCalls
    /\ LET meta_state == compute_update_rule(self_modify.sm, hidden,
                                             self_modify.state)
       IN  self_modify' =
               [self_modify EXCEPT
                   !.state = [meta_state |-> meta_state,
                              update_count |-> @.update_count + 1],
                   !.hidden = Some(hidden),
                   !.rule = Some(meta_state)]
    /\ UNCHANGED <<model, carry, output, events, fed, trainer, memory,
                   optimizer, loader, tokenizer, parser>>

\* sm.apply_weight_modification(&hidden, &sm_state.meta_state)
ApplyWeightModification(hidden) ==
    /\ self_modify' =
           [self_modify EXCEPT
               !.applied = Some(hidden),
               !.modified =
                   Some(apply_weight_modification(self_modify.sm, hidden,
                                                  self_modify.state.meta_state))]
    /\ UNCHANGED <<model, carry, output, events, fed, trainer, memory,
                   optimizer, loader, tokenizer, parser>>

NextSelfModify ==
    \/ \E h \in HiddenChoices(self_modify.batch) : ComputeUpdateRule(h)
    \/ \E h \in HiddenChoices(self_modify.batch) : ApplyWeightModification(h)

SpecSelfModify == InitSelfModify /\ [][NextSelfModify]_vars

(***************************************************************************)
(* DeepOptimizer (src/model/optimizer.rs).                                 *)
(***************************************************************************)
\* DeepOptimizer::new: validates; None when validation panics.
DeepOptimizer_new(config) ==
    IF DeepOptimizerConfig_validate(config)
    THEN Some([config |-> config])
    ELSE None

DeepOptimizer_init_state(num_levels, batch, seq_len, hidden_size) ==
    LET zeros == [i \in 1..num_levels |-> Zeros(<<batch, seq_len, hidden_size>>)]
    IN  [fast_params |-> zeros, slow_params |-> zeros,
         fast_ema |-> zeros, slow_ema |-> zeros, step_count |-> 0]

\* Faulty variant: the EMA is blended with the fast parameters as they were
\* before the gradient step.
fast_level_update_stale(opt, state, level_idx, grad, fast_lr) ==
    IF level_idx >= Len(state.fast_params) THEN state
    ELSE LET fast == TSub(state.fast_params[level_idx + 1],
                          TScale(grad, fast_lr))
             ema_alpha == opt.config.fast_ema
         IN  [state EXCEPT
                 !.fast_params[level_idx + 1] = fast,
                 !.fast_ema[level_idx + 1] =
                     TAdd(TScale(@, RatSub(RatOne, ema_alpha)),
                          TScale(state.fast_params[level_idx + 1], ema_alpha))]

\* The body of the loop of update_fast_params for one gradient (lines 55-66).
fast_level_update(opt, state, level_idx, grad, fast_lr) ==
    IF level_idx >= Len(state.fast_params) THEN state
    ELSE LET fast == TSub(state.fast_params[level_idx + 1],
                          TScale(grad, fast_lr))
             ema_alpha == opt.config.fast_ema
         IN  [state EXCEPT
                 !.fast_params[level_idx + 1] = fast,
                 !.fast_ema[level_idx + 1] =
                     TAdd(TScale(@, RatSub(RatOne, ema_alpha)),
                          TScale(fast, ema_alpha))]

\* for (level_idx, grad) in gradients.iter().enumerate() (line 54)
RECURSIVE fast_loop(_, _, _, _, _)
fast_loop(opt, state, level_idx, gradients, fast_lr) ==
    IF level_idx >= Len(gradients) THEN state
    ELSE fast_loop(opt,
                   fast_level_update(opt, state, level_idx,
                                     gradients[level_idx + 1], fast_lr),
                   level_idx + 1, gradients, fast_lr)

\* Faulty variant: the early return of a disabled optimizer is missing.
update_fast_params_unguarded(opt, state, gradients, learning_rate) ==
    LET fast_lr == RatMul(learning_rate, opt.config.fast_lr_scale)
        updated == fast_loop(opt, state, 0, gradients, fast_lr)
    IN  [updated EXCEPT !.step_count = @ + 1]

\* Faulty variant: a gradient slice of another length than the number of
\* levels is refused and the state left as it was.
update_fast_params_checked(opt, state, gradients, learning_rate) ==
    IF ~opt.config.enabled \/ Len(gradients) # Len(state.fast_params)
    THEN state
    ELSE LET fast_lr == RatMul(learning_rate, opt.config.fast_lr_scale)
             updated == fast_loop(opt, state, 0, gradients, fast_lr)
         IN  [updated EXCEPT !.step_count = @ + 1]

\* Faulty variant: the step counter only moves when a level was updated.
update_fast_params_counting_updates(opt, state, gradients, learning_rate) ==
    IF ~opt.config.enabled THEN state
    ELSE LET fast_lr == RatMul(learning_rate, opt.config.fast_lr_scale)
             updated == fast_loop(opt, state, 0, gradients, fast_lr)
         IN  [updated EXCEPT
                 !.step_count = IF gradients = <<>> THEN @ ELSE @ + 1]

\* Faulty variant: the step counter is incremented inside the loop, once per
\* gradient slice.
update_fast_params_per_level(opt, state, gradients, learning_rate) ==
    IF ~opt.config.enabled THEN state
    ELSE LET fast_lr == RatMul(learning_rate, opt.config.fast_lr_scale)
             updated == fast_loop(opt, state, 0, gradients, fast_lr)
         IN  [updated EXCEPT !.step_count = @ + Len(gradients)]

update_fast_params(opt, state, gradients, learning_rate) ==
    IF ~opt.config.enabled THEN state
    ELSE LET fast_lr == RatMul(learning_rate, opt.config.fast_lr_scale)
             updated == fast_loop(opt, state, 0, gradients, fast_lr)
         IN  [updated EXCEPT !.step_count = @ + 1]

\* The body of the loop of update_slow_params for one level (lines 84-91).
slow_level_update(opt, state, level_idx, slow_lr) ==
    LET diff == TSub(state.fast_ema[level_idx + 1],
                     state.slow_params[level_idx + 1])
        slow == TAdd(state.slow_params[level_idx + 1], TScale(diff, slow_lr))
        ema_alpha == opt.config.slow_ema
    IN  [state EXCEPT
            !.slow_params[level_idx + 1] = slow,
            !.slow_ema[level_idx + 1] =
                TAdd(TScale(@, RatSub(RatOne, ema_alpha)),
                     TScale(slow, ema_alpha))]

RECURSIVE slow_loop(_, _, _, _)
slow_loop(opt, state, level_idx, slow_lr) ==
    IF level_idx >= Len(state.slow_params) THEN state
    ELSE slow_loop(opt, slow_level_update(opt, state, level_idx, slow_lr),
                   level_idx + 1, slow_lr)

update_slow_params(opt, state, learning_rate) ==
    IF ~opt.config.enabled THEN state
    ELSE slow_loop(opt, state, 0,
                   RatMul(learning_rate, opt.config.slow_lr_scale))

\* Faulty variant: the sync falls one step after each multiple of the interval.
should_sync_late(opt, state) ==
    opt.config.enabled
        /\ (state.step_count % opt.config.sync_interval = 1 % opt.config.sync_interval)

\* Faulty variant: no sync before the first update.
should_sync_after_start(opt, state) ==
    /\ opt.config.enabled
    /\ state.step_count > 0
    /\ state.step_count % opt.config.sync_interval = 0

\* && evaluates its right operand only when the left one holds, so a
\* disabled optimizer never divides by its sync_interval.
should_sync(opt, state) ==
    opt.config.enabled /\ (state.step_count % opt.config.sync_interval = 0)

\* Faulty variant: a sync that counts as a step.
sync_counting(opt, state) ==
    IF ~opt.config.enabled THEN state
    ELSE [state EXCEPT
             !.slow_params = [i \in 1..Len(state.slow_params) |->
                                 state.fast_ema[i]],
             !.step_count = @ + 1]

\* Faulty variant: a soft sync that moves slow_params half way to fast_ema.
sync_halfway(opt, state) ==
    IF ~opt.config.enabled THEN state
    ELSE [state EXCEPT
             !.slow_params = [i \in 1..Len(state.slow_params) |->
                                 TAdd(TScale(state.slow_params[i], <<1, 2>>),
                                      TScale(state.fast_ema[i], <<1, 2>>))]]

sync(opt, state) ==
    IF ~opt.config.enabled THEN state
    ELSE [state EXCEPT
             !.slow_params = [i \in 1..Len(state.slow_params) |->
                                 state.fast_ema[i]]]

(***************************************************************************)
(* compress_gradient works on the elements of its argument: here an array  *)
(* is given element by element, a [batch, seq, hidden] array as a sequence *)
(* (batch) of sequences (seq) of sequences (hidden) of rationals.          *)
(***************************************************************************)
RECURSIVE RatSum(_)
RatSum(q) == IF q = <<>> THEN RatZero ELSE RatAdd(Head(q), RatSum(Tail(q)))

array_dims(a) == <<Len(a), Len(a[1]), Len(a[1][1])>>

array_zeros(rows, cols) == [b \in 1..rows |-> [j \in 1..cols |-> RatZero]]

\* sum_dim(1): the sum over the sequence axis, of shape [batch, 1, hidden]
sum_dim_1(a) ==
    [b \in 1..Len(a) |->
        << [j \in 1..Len(a[1][1]) |->
               RatSum([t \in 1..Len(a[1]) |-> a[b][t][j]])] >>]

div_scalar(a, n) ==
    [b \in 1..Len(a) |->
        [t \in 1..Len(a[b]) |->
            [j \in 1..Len(a[b][t]) |-> RatMul(a[b][t][j], <<1, n>>)]]]

\* reshape([batch, hidden]) of a [batch, 1, hidden] array
reshape_2(a) == [b \in 1..Len(a) |-> a[b][1]]

\* slice([0..rows, 0..cols]) of a two-dimensional array
slice_2(a, rows, cols) == [b \in 1..rows |-> SubSeq(a[b], 1, cols)]

\* Faulty variant: the slice keeps the last columns instead of the first.
compress_gradient_last_columns(opt, gradient) ==
    IF ~opt.config.enabled
    THEN array_zeros(array_dims(gradient)[1],
                     opt.config.gradient_compression_dim)
    ELSE LET batch == array_dims(gradient)[1]
             seq_len == array_dims(gradient)[2]
             hidden == array_dims(gradient)[3]
             grad_avg == reshape_2(div_scalar(sum_dim_1(gradient), seq_len))
             compress_dim == Min(opt.config.gradient_compression_dim, hidden)
         IN  [b \in 1..batch |->
                 SubSeq(grad_avg[b], hidden - compress_dim + 1, hidden)]

compress_gradient(opt, gradient) ==
    IF ~opt.config.enabled
    THEN array_zeros(array_dims(gradient)[1],
                     opt.config.gradient_compression_dim)
    ELSE LET batch == array_dims(gradient)[1]
             seq_len == array_dims(gradient)[2]
             hidden == array_dims(gradient)[3]
             grad_avg == reshape_2(div_scalar(sum_dim_1(gradient), seq_len))
             compress_dim == Min(opt.config.gradient_compression_dim, hidden)
         IN  slice_2(grad_avg, batch, compress_dim)

\* Gradients given element by element: two families of entries, in every
\* shape of up to 2 x 3 x 3.
GradientEntry(family, b, t, j) ==
    IF family = 1 THEN RatInt(10 * b + t * j) ELSE RatNorm(j - 2 * t, 2)

GradientArrays ==
    { [b \in 1..batch |->
          [t \in 1..seq_len |->
              [j \in 1..hidden |-> GradientEntry(family, b, t, j)]]] :
        batch \in 1..2, seq_len \in 1..3, hidden \in 1..3,
        family \in 1..2 }

\* Optimizers with compression to 1, 2 and 4 columns, enabled and disabled.
InitCompress ==
    /\ tokenizer = Idle /\ parser = Idle
    /\ optimizer \in
           {[opt |-> Unwrap(DeepOptimizer_new(
                         DeepOptimizerConfig(en, RatOne, <<1, 2>>, <<1, 2>>,
                                             <<1, 2>>, 1, dim))),
             gradient |-> None, compressed |-> None] :
                en \in BOOLEAN, dim \in {1, 2, 4}}
    /\ model = Idle /\ carry = Idle /\ output = Idle /\ events = Idle
    /\ fed = Idle /\ trainer = Idle /\ memory = Idle
    /\ self_modify = Idle /\ loader = Idle

Compress(gradient) ==
    /\ optimizer' = [optimizer EXCEPT
                        !.gradient = Some(gradient),
                        !.compressed =
                            Some(compress_gradient(optimizer.opt, gradient))]
    /\ UNCHANGED <<model, carry, output, events, fed, trainer, memory,
                 self_modify, loader, tokenizer, parser>>

NextCompress == \E g \in GradientArrays : Compress(g)

SpecCompress == InitCompress /\ [][NextCompress]_vars

(***************************************************************************)
(* A DeepOptimizer and its state, driven by a training loop.               *)
(***************************************************************************)
OptimizerChoices ==
    { DeepOptimizerConfig(en, RatOne, <<1, 2>>, fe, <<1, 2>>, si, 2) :
        en \in BOOLEAN, fe \in {<<1, 2>>, <<1, 1>>, <<3, 2>>},
        si \in {0, 1, 2, 3} }

OptLevels == {1, 2}
OptDims == <<1, 3, 2>>
Gradient(n) == Tensor(OptDims, Num(RatInt(n)))

\* Gradient slices of up to two levels.
GradientChoices ==
    { <<>>, <<Gradient(1)>>, <<Gradient(-1)>>, <<Gradient(1), Gradient(2)>> }

LearningRates == {RatOne}

\* The optimizer of a training loop and its state right after init_state,
\* with the history of the calls made on it: their number, the number of
\* update_fast_params calls, the last two operations, the arguments of the
\* last one and the state it was called on.
NewOptimizer(config, num_levels) ==
    LET state == DeepOptimizer_init_state(num_levels, OptDims[1], OptDims[2],
                                          OptDims[3])
    IN  [opt |-> Unwrap(DeepOptimizer_new(config)), state |-> state,
         ops |-> 0, fast_calls |-> 0, last_op |-> "init_state",
         prev_op |-> "new", args |-> <<>>, before |-> state]

\* The history after the call of an operation that leaves `state`.
AfterCall(name, args, state) ==
    [optimizer EXCEPT
        !.state = state, !.ops = @ + 1,
        !.fast_calls = IF name = "update_fast_params" THEN @ + 1 ELSE @,
        !.prev_op = optimizer.last_op, !.last_op = name,
        !.args = args, !.before = optimizer.state]

InitOpt ==
    /\ tokenizer = Idle /\ parser = Idle
    /\ optimizer \in
           {NewOptimizer(c, n) :
                c \in {x \in OptimizerChoices : IsSome(DeepOptimizer_new(x))},
                n \in OptLevels}
    /\ model = Idle /\ carry = Idle /\ output = Idle /\ events = Idle
    /\ fed = Idle /\ trainer = Idle /\ memory = Idle
    /\ self_modify = Idle /\ loader = Idle

OptCall(name, args, state) ==
    /\ optimizer.ops < MaxOptSteps
    /\ optimizer' = AfterCall(name, args, state)
    /\ UNCHANGED <<model, carry, output, events, fed, trainer, memory,
                 self_modify, loader, tokenizer, parser>>

UpdateFastParams(gradients, lr) ==
    OptCall("update_fast_params", <<gradients, lr>>,
            update_fast_params(optimizer.opt, optimizer.state, gradients, lr))

UpdateSlowParams(lr) ==
    OptCall("update_slow_params", <<lr>>,
            update_slow_params(optimizer.opt, optimizer.state, lr))

Sync == OptCall("sync", <<>>, sync(optimizer.opt, optimizer.state))

\* should_sync and compress_gradient take the state by shared reference, or
\* not at all: the call returns and the state is the one it was.
ShouldSync == OptCall("should_sync", <<>>, optimizer.state)

CompressGradient == OptCall("compress_gradient", <<>>, optimizer.state)

NextOpt ==
    \/ \E g \in GradientChoices, lr \in LearningRates : UpdateFastParams(g, lr)
    \/ \E lr \in LearningRates : UpdateSlowParams(lr)
    \/ Sync
    \/ ShouldSync
    \/ CompressGradient

SpecOpt == InitOpt /\ [][NextOpt]_vars

(***************************************************************************)
(* A long run of the default optimizer (sync_interval = 64): the training  *)
(* loop calls update_fast_params once per step, with no gradient slices or *)
(* with a zero gradient, so that only the step counter moves.              *)
(***************************************************************************)
InitSyncRun ==
    /\ tokenizer = Idle /\ parser = Idle
    /\ optimizer \in
           {NewOptimizer(DeepOptimizerConfig_default, n) : n \in OptLevels}
    /\ model = Idle /\ carry = Idle /\ output = Idle /\ events = Idle
    /\ fed = Idle /\ trainer = Idle /\ memory = Idle
    /\ self_modify = Idle /\ loader = Idle

SyncRunStep(gradients) ==
    /\ optimizer.state.step_count < MaxSyncSteps
    /\ optimizer' = AfterCall("update_fast_params", <<gradients, RatOne>>,
                              update_fast_params(optimizer.opt,
                                                 optimizer.state,
                                                 gradients, RatOne))
    /\ UNCHANGED <<model, carry, output, events, fed, trainer, memory,
                 self_modify, loader, tokenizer, parser>>

NextSyncRun == \E g \in { <<>>, <<Gradient(0)>> } : SyncRunStep(g)

SpecSyncRun == InitSyncRun /\ [][NextSyncRun]_vars

(***************************************************************************)
(* Properties of the forward pass and its carried state.                   *)
(***************************************************************************)
RECURSIVE SumSeq(_)
SumSeq(q) == IF q = <<>> THEN 0 ELSE Head(q) + SumSeq(Tail(q))

Started == {s \in SeqIds : IsSome(carry[s])}
CarryOf(s) == Unwrap(carry[s])

\* C1: forward increments carry.step_count by exactly 1 per call: after n
\* forward calls threaded from initial_carry, step_count = n, whatever the
\* level timescales and the enabled modules.
C1_StepCountCountsCalls ==
    \A s \in Started : CarryOf(s).step_count = Len(fed[s])

C1_Witness ==
    \E s \in Started :
        /\ CarryOf(s).step_count = 2
        /\ SumSeq(model.config.level_timescales) > 2
        /\ IsSome(model.self_modify)
        /\ IsSome(model.continuum_memory)

\* The levels of the encoder evaluations of a forward call, in order.
EncoderLevels(ev) ==
    LET enc == SelectSeq(ev, LAMBDA e : e[1] = "encoder")
    IN  [i \in 1..Len(enc) |-> enc[i][2]]

\* C2: in one forward call encoder l is evaluated exactly
\* level_timescales[l] times, sum(level_timescales) evaluations in all, and
\* every evaluation of a level comes before every evaluation of the next
\* level: the levels of the evaluations never decrease.
C2_EncoderEvaluations ==
    \A s \in Started :
        Len(fed[s]) > 0 =>
            LET lv == EncoderLevels(events[s])
                ts == model.config.level_timescales
            IN  /\ Len(lv) = SumSeq(ts)
                /\ \A l \in 0..(model.config.num_levels - 1) :
                       Cardinality({i \in 1..Len(lv) : lv[i] = l}) = ts[l + 1]
                /\ \A i, j \in 1..Len(lv) : i < j => lv[i] <= lv[j]

C2_Witness ==
    \E s \in Started :
        /\ Len(fed[s]) > 0
        /\ model.config.level_timescales = <<2, 1>>
        /\ EncoderLevels(events[s]) = <<0, 0, 1>>

\* Other contents a carried level state could have had.
OtherStates(x) ==
    {y \in {Tensor(x.dims, Mod(1)), Tensor(x.dims, Mod(2)), Zeros(x.dims)} :
        y # x}

\* C3: the state forward writes to level_states[l] does not depend on the
\* carried state of any level k > l: the next call of a sequence, on a carry
\* that differs only there, writes the same level_states[l].
C3_NoDownwardFlow ==
    \A s \in {x \in Started : Len(fed[x]) < MaxCalls} : \A t \in Tokens :
        LET c == CarryOf(s)
            input == TokenBatch(BatchOf(c), model.config.seq_len, t)
            r1 == forward(model, input, c)
        IN  \A k \in 2..Len(c.level_states) :
                \A other \in OtherStates(c.level_states[k]) :
                    LET r2 == forward(model, input,
                                  [c EXCEPT !.level_states[k] = other])
                    IN  \A l \in 1..(k - 1) :
                            r2.carry.level_states[l] = r1.carry.level_states[l]

C3_Witness ==
    \E s \in Started :
        /\ Len(fed[s]) < MaxCalls
        /\ Len(CarryOf(s).level_states) = 3
        /\ CarryOf(s).step_count > 0
        /\ CarryOf(s).level_states[3] # Zeros(CarryOf(s).level_states[3].dims)
        /\ CarryOf(s).level_states[2] # CarryOf(s).level_states[3]

\* What sequence s holds after its calls when it runs alone: forward folded
\* over its token batches, from initial_carry.
RECURSIVE RunAlone(_, _, _)
RunAlone(m, r, inputs) ==
    IF inputs = <<>> THEN r
    ELSE RunAlone(m, forward(m, Head(inputs), r.carry), Tail(inputs))

Alone(s) ==
    RunAlone(model,
             [carry |-> initial_carry(model, BatchOf(CarryOf(s))),
              output |-> None, events |-> <<>>],
             fed[s])

C6_LevelStates ==
    /\ \A b \in BatchSizes :
           LET ls == initial_carry(model, b).level_states
           IN  /\ Len(ls) = model.config.num_levels
               /\ \A i \in 1..Len(ls) :
                      ls[i].dims = <<b, model.config.seq_len,
                                     model.config.hidden_size>>
    /\ \A s \in Started :
           Len(CarryOf(s).level_states) = model.config.num_levels

C6_Witness ==
    \E s \in Started :
        /\ Len(fed[s]) = 2
        /\ Len(CarryOf(s).level_states) = 3
        /\ BatchOf(CarryOf(s)) = 2

\* C7: in every carry, the memory state is present iff memory is enabled in
\* the configuration, and the self-modify state iff self-modification is.
C7_OptionalStates ==
    \A s \in Started :
        /\ IsSome(CarryOf(s).continuum_memory)
               <=> model.config.continuum_mem.enabled
        /\ IsSome(CarryOf(s).self_modify)
               <=> model.config.self_modify.enabled

C7_Witness ==
    /\ \E s \in Started :
           Len(fed[s]) > 0 /\ IsSome(CarryOf(s).continuum_memory)
                           /\ ~IsSome(CarryOf(s).self_modify)
    /\ \E s \in Started : Len(fed[s]) = 0

\* C8: with self-modification enabled, update_count grows by one per inner
\* iteration, whatever update_frequency is: after n forward calls it is
\* n * sum(level_timescales).
C8_UpdateCount ==
    \A s \in Started :
        model.config.self_modify.enabled =>
            Unwrap(CarryOf(s).self_modify).update_count
                = Len(fed[s]) * SumSeq(model.config.level_timescales)

C8_Witness ==
    \E s \in Started :
        /\ model.config.self_modify.enabled
        /\ Len(fed[s]) = 2
        /\ Unwrap(CarryOf(s).self_modify).update_count = 6

(***************************************************************************)
(* Properties of the training step.                                        *)
(***************************************************************************)
\* C4: the training driver threads the carry: the carry handed to forward
\* in a training step is the one the previous step's forward returned, so
\* the carried state persists across the batches of the sequence.
C4_CarryThreaded ==
    trainer.steps >= 2 => trainer.forward_in = trainer.prev_forward_out

(***************************************************************************)
(* Properties of the data loaders.                                         *)
(***************************************************************************)
\* C20: num_batches() is the total number of batches a loader yields: from
\* a fresh or reset loader next_batch returns Some exactly num_batches()
\* times and None from then on, each batch having tokens and targets of
\* shape [batch_size, seq_len].
C20_NumBatchesIsTotal ==
    LET total == Unwrap(num_batches(loader.l))
    IN  /\ loader.yielded <= total
        /\ loader.ended => loader.yielded = total
        /\ ~loader.some_after_none
        /\ (IsSome(loader.last) /\ IsSome(Unwrap(loader.last))) =>
               LET batch == Unwrap(Unwrap(loader.last))
                   shape == <<loader.l.batch_size, loader.l.seq_len>>
               IN  /\ batch.tokens.dims = shape
                   /\ batch.targets.dims = shape

(***************************************************************************)
(* Properties of the continuum memory.                                     *)
(***************************************************************************)
MemValue(x) == RatOf(x.v)

EmaBanks(cfg) ==
    { <<"short", cfg.short_span>>, <<"mid", cfg.mid_span>>,
      <<"long", cfg.long_span>>, <<"episodic", cfg.episodic_span>> }

\* C9: an enabled update sets ultra_short to new_hidden and each other bank
\* to bank*(1-alpha) + new_hidden*alpha with alpha = 1/span for the bank's
\* own span, that is span*bank' = (span-1)*bank + new_hidden; from zero
\* banks with the default spans episodic is new_hidden/512, and a bank of
\* span 1 is new_hidden.
C9_MemoryUpdate ==
    (memory.mem.config.enabled /\ IsSome(memory.new_hidden)) =>
        LET h == Unwrap(memory.new_hidden)
            b == Unwrap(memory.before)
            st == memory.state
            cfg == memory.mem.config
        IN  /\ st.ultra_short = h
            /\ \A e \in EmaBanks(cfg) :
                   /\ st[e[1]].dims = h.dims
                   /\ RatMul(RatInt(e[2]), MemValue(st[e[1]]))
                          = RatAdd(RatMul(RatInt(e[2] - 1), MemValue(b[e[1]])),
                                   MemValue(h))
                   /\ e[2] = 1 => st[e[1]] = h
            /\ (cfg = ContinuumMemConfig_default /\ memory.updates = 1) =>
                   RatMul(RatInt(512), MemValue(st.episodic)) = MemValue(h)

C9_Witness ==
    /\ memory.mem.config = ContinuumMemConfig_default
    /\ memory.updates = 2
    /\ Unwrap(memory.new_hidden).v = Num(<<3, 2>>)
    /\ Unwrap(memory.before).episodic.v = Num(<<1, 512>>)
    /\ memory.state.ultra_short.v = Num(<<3, 2>>)
    /\ memory.state.episodic.v = Num(<<1279, 262144>>)

\* Memory states other than the one init_state returns: every bank holds
\* one value, or each bank its own.
MemStateChoices ==
    { [ultra_short |-> Tensor(MemDims, v), short |-> Tensor(MemDims, v),
       mid |-> Tensor(MemDims, v), long |-> Tensor(MemDims, v),
       episodic |-> Tensor(MemDims, v)] : v \in NewHiddenChoices }
    \cup
    { [ultra_short |-> Tensor(MemDims, Num(<<1, 1>>)),
       short |-> Tensor(MemDims, Num(<<-2, 1>>)),
       mid |-> Tensor(MemDims, Num(<<3, 2>>)),
       long |-> Tensor(MemDims, Num(<<1, 3>>)),
       episodic |-> Tensor(MemDims, Mod(5))] }

\* C16: with memory disabled retrieve returns the query, for any memory
\* state, and update leaves all five banks as they were.
C16_DisabledMemory ==
    ~memory.mem.config.enabled =>
        /\ IsSome(memory.before) => memory.state = Unwrap(memory.before)
        /\ IsSome(memory.retrieved) => memory.retrieved = memory.query
        /\ \A st \in MemStateChoices : \A v \in NewHiddenChoices :
               /\ retrieve(memory.mem, st, Tensor(MemDims, v))
                      = Tensor(MemDims, v)
               /\ update(memory.mem, st, Tensor(MemDims, v)) = st

C16_Witness ==
    /\ ~memory.mem.config.enabled
    /\ memory.updates = 2
    /\ memory.new_hidden = Some(Tensor(MemDims, Num(<<3, 2>>)))
    /\ memory.state.ultra_short = Zeros(MemDims)
    /\ memory.retrieved = Some(Tensor(MemDims, Num(<<-2, 1>>)))

(***************************************************************************)
(* Properties of the self-modification module.                             *)
(***************************************************************************)
\* Meta-states [batch, weight_mod_dim] other than the zero one.
MetaStateChoices(batch, dim) ==
    {Tensor(<<batch, dim>>, v) : v \in NewHiddenChoices \cup {Mod(5)}}

\* C17: with self-modification disabled apply_weight_modification returns
\* hidden unchanged, for any meta_state, and compute_update_rule returns
\* an all-zero [batch, weight_mod_dim] array, for any hidden and state.
C17_DisabledSelfModify ==
    ~self_modify.sm.config.enabled =>
        LET dim == self_modify.sm.config.weight_mod_dim
            b == self_modify.batch
        IN  /\ IsSome(self_modify.rule) =>
                   /\ Unwrap(self_modify.rule).dims = <<b, dim>>
                   /\ Unwrap(self_modify.rule).v = Num(RatZero)
            /\ IsSome(self_modify.modified) =>
                   self_modify.modified = self_modify.applied
            /\ \A h \in HiddenChoices(b) : \A ms \in MetaStateChoices(b, dim) :
                   /\ apply_weight_modification(self_modify.sm, h, ms) = h
                   /\ compute_update_rule(
                          self_modify.sm, h,
                          [meta_state |-> ms,
                           update_count |-> self_modify.state.update_count])
                        = [dims |-> <<b, dim>>, v |-> Num(RatZero)]

C17_Witness ==
    /\ ~self_modify.sm.config.enabled
    /\ self_modify.sm.config.weight_mod_dim = 3
    /\ self_modify.batch = 2
    /\ self_modify.state.update_count = 2
    /\ self_modify.hidden = Some(Tensor(<<2, 3, 2>>, Num(<<3, 2>>)))
    /\ self_modify.modified = Some(Tensor(<<2, 3, 2>>, Num(<<-2, 1>>)))

(***************************************************************************)
(* Properties of the dual-rate optimizer.                                  *)
(***************************************************************************)
\* C10: should_sync(state) is true iff the optimizer is enabled and
\* step_count is a multiple of sync_interval.
C10_ShouldSync ==
    should_sync(optimizer.opt, optimizer.state)
        <=> /\ optimizer.opt.config.enabled
            /\ \E k \in 0..optimizer.state.step_count :
                   k * optimizer.opt.config.sync_interval
                       = optimizer.state.step_count

C10_Witness ==
    /\ optimizer.opt.config.enabled
    /\ optimizer.opt.config.sync_interval = 3
    /\ optimizer.state.step_count = 3
    /\ should_sync(optimizer.opt, optimizer.state)

\* C11, from the first multiple on: with the optimizer enabled and sync_interval = 64,
\* along a run from init_state should_sync is true at step counts 64, 128,
\* 192, ... and false at every other step count.
C11_SyncAtPositiveMultiples ==
    (optimizer.opt.config.enabled /\ optimizer.opt.config.sync_interval = 64)
        => (should_sync(optimizer.opt, optimizer.state)
                <=> optimizer.state.step_count
                        \in {64 * k : k \in 1..MaxSyncSteps})

\* C11, from step count 0 on: should_sync is true at step counts 0, 64, 128, 192, ...
\* and false at every other step count; step count 0 is the state
\* init_state returns.
C11_SyncAtMultiples ==
    (optimizer.opt.config.enabled /\ optimizer.opt.config.sync_interval = 64)
        => (should_sync(optimizer.opt, optimizer.state)
                <=> optimizer.state.step_count
                        \in {64 * k : k \in 0..MaxSyncSteps})

C11_Witness ==
    /\ optimizer.opt.config.enabled
    /\ optimizer.opt.config.sync_interval = 64
    /\ optimizer.state.step_count = 128
    /\ should_sync(optimizer.opt, optimizer.state)

\* C12: step_count counts the update_fast_params calls: each call on an
\* enabled optimizer adds exactly 1, whatever the number of levels and of
\* gradient slices, and update_slow_params, sync, should_sync and
\* compress_gradient leave it alone, so after any sequence of operations
\* from init_state step_count is the number of update_fast_params calls.
C12_StepCountCountsFastCalls ==
    /\ optimizer.opt.config.enabled
           => optimizer.state.step_count = optimizer.fast_calls
    /\ (optimizer.opt.config.enabled
            /\ optimizer.last_op = "update_fast_params")
           => optimizer.state.step_count = optimizer.before.step_count + 1
    /\ optimizer.last_op \in {"update_slow_params", "sync", "should_sync",
                               "compress_gradient"}
           => optimizer.state.step_count = optimizer.before.step_count

C12_Witness ==
    /\ optimizer.opt.config.enabled
    /\ Len(optimizer.state.fast_params) = 2
    /\ optimizer.fast_calls = 2
    /\ optimizer.ops = 4
    /\ optimizer.state.step_count = 2
    /\ optimizer.last_op = "sync"
    /\ optimizer.state.fast_params[2] # Zeros(OptDims)

\* C13: sync is idempotent on immediate repetition: when sync is called
\* twice in a row, slow_params after the second call equals slow_params
\* after the first.
C13_SyncIdempotent ==
    (optimizer.last_op = "sync" /\ optimizer.prev_op = "sync")
        => optimizer.state.slow_params = optimizer.before.slow_params

\* update_fast_params, sync, sync: the first sync moved slow_params off zero.
C13_Witness ==
    /\ optimizer.opt.config.enabled
    /\ optimizer.last_op = "sync" /\ optimizer.prev_op = "sync"
    /\ optimizer.ops = 3 /\ optimizer.fast_calls = 1
    /\ optimizer.state.slow_params[1] # Zeros(OptDims)

\* C19: on a [batch, seq, hidden] array an enabled compress_gradient
\* returns a [batch, min(gradient_compression_dim, hidden)] array whose
\* entry (b, j) is the mean over the sequence axis of gradient[b, ., j]:
\* column j of the result is column j of the gradient.
C19_CompressGradient ==
    (optimizer.opt.config.enabled /\ IsSome(optimizer.compressed)) =>
        LET g == Unwrap(optimizer.gradient)
            r == Unwrap(optimizer.compressed)
            batch == Len(g)
            seq_len == Len(g[1])
            hidden == Len(g[1][1])
            dim == optimizer.opt.config.gradient_compression_dim
            cols == IF dim < hidden THEN dim ELSE hidden
        IN  /\ Len(r) = batch
            /\ \A b \in 1..batch :
                   /\ Len(r[b]) = cols
                   /\ \A j \in 1..cols :
                          RatMul(r[b][j], RatInt(seq_len))
                              = RatSum([t \in 1..seq_len |-> g[b][t][j]])

C19_Witness ==
    /\ optimizer.opt.config.enabled
    /\ optimizer.opt.config.gradient_compression_dim = 2
    /\ IsSome(optimizer.compressed)
    /\ array_dims(Unwrap(optimizer.gradient)) = <<2, 3, 3>>
    /\ Unwrap(optimizer.compressed) = << <<RatInt(12), RatInt(14)>>,
                                         <<RatInt(22), RatInt(24)>> >>

ArchitectureWellFormed(c) ==
    /\ c.hidden_size > 0 /\ c.vocab_size > 0 /\ c.seq_len > 0
    /\ c.num_heads > 0 /\ c.num_layers > 0 /\ c.num_levels > 0
    /\ RatLeq(RatZero, c.ff_multiplier) /\ c.ff_multiplier # RatZero
    /\ c.hidden_size % c.num_heads = 0
    /\ Len(c.level_timescales) = c.num_levels
    /\ \A i \in 1..Len(c.level_timescales) : c.level_timescales[i] > 0

\* C14: every configuration validate accepts has hidden_size % num_heads
\* = 0, len(level_timescales) = num_levels and all architecture values
\* positive (hidden_size, vocab_size, seq_len, num_heads, num_layers,
\* ff_multiplier, num_levels and every entry of level_timescales), a
\* configuration violating any of these being rejected: the configuration
\* of every model that was built is well formed.
C14_AcceptedConfigWellFormed ==
    ArchitectureWellFormed(model.config)

\* The settings of every enabled module of a configuration are valid.
ModulesWellFormed(c) ==
    /\ c.continuum_mem.enabled =>
           /\ 0 < c.continuum_mem.ultra_short_span
           /\ c.continuum_mem.ultra_short_span <= c.continuum_mem.short_span
           /\ c.continuum_mem.short_span <= c.continuum_mem.mid_span
           /\ c.continuum_mem.mid_span <= c.continuum_mem.long_span
           /\ c.continuum_mem.long_span <= c.continuum_mem.episodic_span
    /\ c.self_modify.enabled =>
           /\ c.self_modify.meta_lr[1] > 0
           /\ c.self_modify.update_frequency > 0
           /\ c.self_modify.weight_mod_dim > 0
    /\ c.deep_optimizer.enabled =>
           /\ \A ema \in {c.deep_optimizer.fast_ema,
                           c.deep_optimizer.slow_ema} :
                  0 <= ema[1] /\ ema[1] <= ema[2]
           /\ c.deep_optimizer.sync_interval > 0
           /\ c.deep_optimizer.gradient_compression_dim > 0

\* C15: HopeModel::new validates first and aborts on invalid settings of
\* an enabled module (a non-positive or decreasing memory span, a
\* non-positive self-modify value, fast_ema or slow_ema outside [0, 1],
\* sync_interval or gradient_compression_dim of 0): no model that forward
\* is called on has such a configuration, and new returns no model for one.
InvalidModulesRejected ==
    \A c \in HopeConfigChoices :
        ~ModulesWellFormed(c) => HopeModel_new(c) = None

C15_InvalidModulesAbort ==
    /\ ModulesWellFormed(model.config)
    /\ InvalidModulesRejected

\* Configurations that differ from the default modules in one setting only
\* and are well formed otherwise.
OneInvalidSetting ==
    \E c \in HopeConfigChoices :
        /\ ArchitectureWellFormed(c)
        /\ c.continuum_mem = ContinuumMemConfig_default
        /\ c.self_modify.weight_mod_dim = 3
        /\ c.self_modify.update_frequency = 8
        /\ c.self_modify.meta_lr # RatZero
        /\ c.deep_optimizer.sync_interval = 0
        /\ HopeModel_new(c) = None

C15_Witness ==
    /\ model.config.continuum_mem.enabled
    /\ model.config.self_modify.enabled
    /\ model.config.deep_optimizer.enabled
    /\ \E s \in Started : CarryOf(s).step_count = 2
    /\ OneInvalidSetting

(***************************************************************************)
(* Properties of the character tokenizer.                                  *)
(***************************************************************************)
\* The characters of the encoded text that do not occur in the text the
\* tokenizer was built from, as positions of the encoded text.
UnknownPositions ==
    IF IsSome(tokenizer.text)
    THEN {i \in 1..Len(Unwrap(tokenizer.text)) :
             \A j \in 1..Len(tokenizer.source) :
                 tokenizer.source[j] # Unwrap(tokenizer.text)[i]}
    ELSE {}

RoundTripHolds ==
    IsSome(tokenizer.round) => Unwrap(tokenizer.round) = tokenizer.source

\* C21, every absent character: decoding the encoding of the text a
\* tokenizer was built from gives the text back, and every character of an
\* input that does not occur in that text is encoded as unk_id.
C21_AbsentCharsAreUnknown ==
    /\ RoundTripHolds
    /\ \A i \in UnknownPositions :
           Unwrap(tokenizer.encoded)[i] = tokenizer.tok.unk_id

\* C21, NUL apart: decoding the encoding of the text a tokenizer was built
\* from gives the text back, and every character of an input other than
\* '\0' that does not occur in that text is encoded as unk_id; '\0' is
\* encoded as pad_id whether it occurs in the text or not.
C21_RoundTripAndUnknown ==
    /\ RoundTripHolds
    /\ \A i \in UnknownPositions :
           IF Unwrap(tokenizer.text)[i] = NUL
           THEN Unwrap(tokenizer.encoded)[i] = tokenizer.tok.pad_id
           ELSE Unwrap(tokenizer.encoded)[i] = tokenizer.tok.unk_id
    /\ IsSome(tokenizer.text) =>
           \A i \in 1..Len(Unwrap(tokenizer.text)) :
               Unwrap(tokenizer.text)[i] = NUL
                   => Unwrap(tokenizer.encoded)[i] = tokenizer.tok.pad_id

C21_Witness ==
    /\ tokenizer.source = <<98, NUL>>
    /\ tokenizer.round = Some(<<98, NUL>>)
    /\ tokenizer.text = Some(<<97, 98>>)
    /\ tokenizer.encoded = Some(<<1, 2>>)

(***************************************************************************)
(* Order of the calls of one forward call.                                 *)
(***************************************************************************)
ComputeEvents(ev) == SelectSeq(ev, LAMBDA e : e[1] = "compute_update_rule")

\* An encoder evaluation at position i of the calls is followed by
\* compute_update_rule on its output and then by apply_weight_modification
\* on its output and on the meta-state compute_update_rule returned.
IterationInOrder(ev, i) ==
    /\ i + 2 <= Len(ev)
    /\ ev[i + 1][1] = "compute_update_rule"
    /\ ev[i + 1][2] = ev[i][2]
    /\ ev[i + 1][3] = ev[i][3]
    /\ ev[i + 2][1] = "apply_weight_modification"
    /\ ev[i + 2][2] = ev[i][2]
    /\ ev[i + 2][3] = ev[i][3]
    /\ ev[i + 2][4] = ev[i + 1][5]

\* The meta-state a compute_update_rule call is given is the one the call
\* before it returned (zero for the first call after initial_carry), and
\* the carry holds the one the last call returned.
MetaStateThreaded(s) ==
    LET cu == ComputeEvents(events[s])
    IN  /\ \A k \in 2..Len(cu) : cu[k][4] = cu[k - 1][5]
        /\ Len(cu) > 0 =>
               /\ Unwrap(CarryOf(s).self_modify).meta_state = cu[Len(cu)][5]
               /\ Len(fed[s]) = 1 =>
                      cu[1][4] = SelfModify_init_state(
                                     Unwrap(model.self_modify),
                                     BatchOf(CarryOf(s))).meta_state

\* C22: with self-modification enabled every inner iteration runs the
\* encoder, then compute_update_rule on the encoded output and the current
\* meta-state, stores the result in the carry, then runs
\* apply_weight_modification on the encoded output and the stored
\* meta-state, never on the one the iteration started with.
C22_SelfModifyOrder ==
    \A s \in Started :
        (model.config.self_modify.enabled /\ Len(fed[s]) > 0) =>
            /\ \A i \in 1..Len(events[s]) :
                   events[s][i][1] = "encoder" => IterationInOrder(events[s], i)
            /\ Len(ComputeEvents(events[s]))
                   = Len(SelectSeq(events[s], LAMBDA e : e[1] = "encoder"))
            /\ Len(SelectSeq(events[s],
                             LAMBDA e : e[1] = "apply_weight_modification"))
                   = Len(ComputeEvents(events[s]))
            /\ MetaStateThreaded(s)

C22_Witness ==
    \E s \in Started :
        /\ model.config.self_modify.enabled
        /\ Len(fed[s]) = 2
        /\ LET cu == ComputeEvents(events[s])
           IN  /\ Len(cu) = 3
               /\ \A k \in 1..3 : cu[k][4] # cu[k][5]

(***************************************************************************)
(* The memory banks over one forward call.                                 *)
(***************************************************************************)
MemoryEvents(ev) ==
    SelectSeq(ev, LAMBDA e : e[1] = "retrieve" \/ e[1] = "update")

\* The forward call that sequence s has just made read the banks once,
\* before anything else, as the carry handed in held them, and updated them
\* once, after everything else, from the last level's final state.
MemoryOncePerCall(s) ==
    LET ev == events'[s]
        before == Unwrap(carry[s])
        after == Unwrap(carry'[s])
        last_level == Len(after.level_states)
    IN  /\ Len(ev) >= 2
        /\ Len(MemoryEvents(ev)) = 2
        /\ ev[1][1] = "retrieve"
        /\ ev[1][2] = Unwrap(before.continuum_memory)
        /\ Len(fed[s]) = 0 =>
               ev[1][2] = ContinuumMemory_init_state(
                              BatchOf(before), model.config.seq_len,
                              model.config.hidden_size)
        /\ ev[Len(ev)][1] = "update"
        /\ ev[Len(ev)][2] = after.level_states[last_level]
        /\ after.continuum_memory =
               Some(update(Unwrap(model.continuum_memory),
                           Unwrap(before.continuum_memory),
                           after.level_states[last_level]))

\* C23: with memory enabled each forward call reads the banks exactly once,
\* before the level loop, as the previous call left them (zero on the first
\* call after initial_carry), and updates them exactly once, after the last
\* level, from that level's final state.
C23_MemoryOncePerCall ==
    [][\A s \in SeqIds :
           (model.config.continuum_mem.enabled /\ fed'[s] # fed[s])
               => MemoryOncePerCall(s)]_vars

C23_Witness ==
    \E s \in Started :
        /\ model.config.continuum_mem.enabled
        /\ Len(model.config.level_timescales) = 2
        /\ Len(fed[s]) = 2
        /\ events[s][1][1] = "retrieve"
        /\ events[s][1][2] # ContinuumMemory_init_state(
                                 BatchOf(CarryOf(s)), model.config.seq_len,
                                 model.config.hidden_size)
        /\ events[s][Len(events[s])][1] = "update"
        /\ CarryOf(s).level_states[1] # CarryOf(s).level_states[2]

(***************************************************************************)
(* Frame and effect of the optimizer's operations.                         *)
(***************************************************************************)
\* C24: sync of an enabled optimizer sets slow_params[l] to the current
\* fast_ema[l] for every level l and leaves fast_params, fast_ema, slow_ema
\* and step_count as they were, so should_sync answers the same right
\* before and right after it.
C24_SyncFrame ==
    (optimizer.opt.config.enabled /\ optimizer.last_op = "sync") =>
        /\ Len(optimizer.state.slow_params) = Len(optimizer.before.slow_params)
        /\ \A l \in 1..Len(optimizer.before.slow_params) :
               optimizer.state.slow_params[l] = optimizer.before.fast_ema[l]
        /\ optimizer.state.fast_params = optimizer.before.fast_params
        /\ optimizer.state.fast_ema = optimizer.before.fast_ema
        /\ optimizer.state.slow_ema = optimizer.before.slow_ema
        /\ optimizer.state.step_count = optimizer.before.step_count
        /\ should_sync(optimizer.opt, optimizer.state)
               = should_sync(optimizer.opt, optimizer.before)

C24_Witness ==
    /\ optimizer.opt.config.enabled
    /\ optimizer.last_op = "sync"
    /\ Len(optimizer.before.slow_params) = 2
    /\ optimizer.before.slow_params[1] # optimizer.before.fast_ema[1]
    /\ optimizer.before.fast_params[1] # optimizer.before.fast_ema[1]
    /\ optimizer.before.slow_ema[1] # optimizer.before.fast_ema[1]
    /\ optimizer.before.step_count = 1
    /\ optimizer.opt.config.sync_interval = 2
    /\ ~should_sync(optimizer.opt, optimizer.state)

\* The last call was update_fast_params on an enabled optimizer.
FastCall ==
    optimizer.opt.config.enabled /\ optimizer.last_op = "update_fast_params"

\* fast_params'[l] = fast_params[l] - gradients[l]*(lr*fast_lr_scale) and
\* fast_ema'[l] = fast_ema[l]*(1-c) + fast_params'[l]*c for level l of the
\* last call.
FastLevelUpdated(l) ==
    LET grad == optimizer.args[1][l]
        lr == optimizer.args[2]
        c == optimizer.opt.config.fast_ema
    IN  /\ optimizer.state.fast_params[l] =
               TSub(optimizer.before.fast_params[l],
                    TScale(grad, RatMul(lr, optimizer.opt.config.fast_lr_scale)))
        /\ optimizer.state.fast_ema[l] =
               TAdd(TScale(optimizer.before.fast_ema[l], RatSub(RatOne, c)),
                    TScale(optimizer.state.fast_params[l], c))

\* C25: update_fast_params of an enabled optimizer, given one gradient per
\* level, sets for every level l fast_params'[l] = fast_params[l] -
\* gradients[l]*(lr*fast_lr_scale) and then fast_ema'[l] =
\* fast_ema[l]*(1-c) + fast_params'[l]*c, c the fast EMA coefficient, with
\* the updated fast_params'; slow_params and slow_ema stay as they were.
C25_FastUpdate ==
    (FastCall /\ Len(optimizer.args[1]) = Len(optimizer.before.fast_params)) =>
        /\ Len(optimizer.state.fast_params) = Len(optimizer.before.fast_params)
        /\ Len(optimizer.state.fast_ema) = Len(optimizer.before.fast_ema)
        /\ \A l \in 1..Len(optimizer.before.fast_params) : FastLevelUpdated(l)
        /\ optimizer.state.slow_params = optimizer.before.slow_params
        /\ optimizer.state.slow_ema = optimizer.before.slow_ema

C25_Witness ==
    /\ FastCall
    /\ Len(optimizer.args[1]) = 2
    /\ Len(optimizer.before.fast_params) = 2
    /\ optimizer.opt.config.fast_ema = <<1, 2>>
    /\ optimizer.before.fast_params[1] # optimizer.before.fast_ema[1]
    /\ optimizer.before.slow_params[1] # optimizer.before.slow_ema[1]
    /\ optimizer.state.fast_params[1] # optimizer.state.fast_params[2]

\* C27: update_fast_params of an enabled optimizer, given a gradient slice
\* of another length than the number of levels, does not fail: gradients
\* past the last level are ignored, the levels that get no gradient keep
\* their fast_params and fast_ema, the others are updated as usual, and
\* step_count grows by exactly 1.
C27_GradientLengthMismatch ==
    (FastCall /\ Len(optimizer.args[1]) # Len(optimizer.before.fast_params)) =>
        LET levels == Len(optimizer.before.fast_params)
            given == Len(optimizer.args[1])
        IN  /\ Len(optimizer.state.fast_params) = levels
            /\ Len(optimizer.state.fast_ema) = levels
            /\ \A l \in 1..levels :
                   IF l <= given THEN FastLevelUpdated(l)
                   ELSE /\ optimizer.state.fast_params[l]
                               = optimizer.before.fast_params[l]
                        /\ optimizer.state.fast_ema[l]
                               = optimizer.before.fast_ema[l]
            /\ optimizer.state.slow_params = optimizer.before.slow_params
            /\ optimizer.state.slow_ema = optimizer.before.slow_ema
            /\ optimizer.state.step_count = optimizer.before.step_count + 1

\* One gradient for two levels, after two other calls.
C27_Witness ==
    /\ FastCall
    /\ Len(optimizer.before.fast_params) = 2
    /\ Len(optimizer.args[1]) = 1
    /\ optimizer.state.fast_params[1] # optimizer.before.fast_params[1]
    /\ optimizer.before.fast_params[2] # optimizer.before.fast_ema[2]
    /\ optimizer.state.step_count = 3

\* The state after k further update_fast_params calls with `gradients`.
RECURSIVE FastCalls(_, _, _, _)
FastCalls(opt, state, gradients, k) ==
    IF k = 0 THEN state
    ELSE FastCalls(opt, update_fast_params(opt, state, gradients, RatOne),
                   gradients, k - 1)

\* A state the operations are defined on: one tensor of the same shape per
\* level in each of the four lists.
OptStateOf(st, levels, dims) ==
    /\ st.step_count \in Nat
    /\ \A f \in {"fast_params", "slow_params", "fast_ema", "slow_ema"} :
           /\ Len(st[f]) = levels
           /\ \A l \in 1..levels : st[f][l].dims = dims

\* C26: the enabled optimizer has no terminal state and syncs periodically:
\* in every reachable state update_fast_params, update_slow_params and sync
\* can be applied, each leaving a state they can be applied to again, and
\* should_sync becomes true after at most sync_interval further
\* update_fast_params calls, whatever their gradients.
C26_NoTerminalStatePeriodicSync ==
    optimizer.opt.config.enabled =>
        LET opt == optimizer.opt
            state == optimizer.state
            levels == Len(optimizer.before.fast_params)
        IN  /\ OptStateOf(state, levels, OptDims)
            /\ \A g \in GradientChoices, lr \in LearningRates :
                   OptStateOf(update_fast_params(opt, state, g, lr),
                              levels, OptDims)
            /\ \A lr \in LearningRates :
                   OptStateOf(update_slow_params(opt, state, lr),
                              levels, OptDims)
            /\ OptStateOf(sync(opt, state), levels, OptDims)
            /\ \A g \in GradientChoices :
                   \E k \in 1..opt.config.sync_interval :
                       should_sync(opt, FastCalls(opt, state, g, k))

C26_Witness ==
    /\ optimizer.opt.config.enabled
    /\ optimizer.opt.config.sync_interval = 3
    /\ optimizer.state.step_count = 1
    /\ optimizer.ops = 3
    /\ optimizer.last_op = "sync"
    /\ ~should_sync(optimizer.opt, optimizer.state)
    /\ ~should_sync(optimizer.opt,
                    FastCalls(optimizer.opt, optimizer.state, <<>>, 1))
    /\ should_sync(optimizer.opt,
                   FastCalls(optimizer.opt, optimizer.state, <<>>, 2))

(***************************************************************************)
(* Frame of next_batch.                                                    *)
(***************************************************************************)
\* The step is a next_batch call (reset leaves no last result).
NextBatchCalled == IsSome(loader'.last)

\* C28: next_batch never consumes part of a batch: it returns Some and
\* advances current_pos by exactly batch_size * seq_len, or it returns None
\* and leaves current_pos where it was; and a call that follows one that
\* returned None, with no reset in between, returns None.
C28_NextBatchAllOrNothing ==
    [][NextBatchCalled =>
           LET result == Unwrap(loader'.last)
           IN  /\ IF IsSome(result)
                  THEN loader'.l.current_pos
                           = loader.l.current_pos
                                 + loader.l.batch_size * loader.l.seq_len
                  ELSE loader'.l.current_pos = loader.l.current_pos
               /\ loader.last = Some(None) => result = None]_vars

C28_Witness ==
    /\ loader.last = Some(None)
    /\ loader.l.batch_size = 2
    /\ loader.l.seq_len = 2
    /\ loader.yielded = 1
    /\ loader.l.current_pos = 4
    /\ Len(loader.l.tokens) = 8

(***************************************************************************)
(* Range of the meta-state.                                                *)
(***************************************************************************)
\* C29: with self-modification enabled every component of
\* carry.self_modify.meta_state is within [-1, 1] in every carry reached
\* from initial_carry by forward calls.
C29_MetaStateBounded ==
    \A s \in Started :
        model.config.self_modify.enabled =>
            LET meta_state == Unwrap(CarryOf(s).self_modify).meta_state
            IN  /\ IsNum(meta_state.v)
                /\ RatLeq(RatInt(-1), RatOf(meta_state.v))
                /\ RatLeq(RatOf(meta_state.v), RatOne)

C29_Witness ==
    \E s \in Started :
        /\ model.config.self_modify.enabled
        /\ Unwrap(CarryOf(s).self_modify).update_count = 6
        /\ LET v == RatOf(Unwrap(CarryOf(s).self_modify).meta_state.v)
           IN  RatLeq(<<1, 4>>, v) \/ RatLeq(v, <<-1, 4>>)

(***************************************************************************)
(* Properties of strip_html_tags.                                          *)
(***************************************************************************)
\* The text of a document outside its tags and outside its script and
\* style elements: `inside` names the element the walk is in, or is "".
RECURSIVE VisibleText(_, _)
VisibleText(doc, inside) ==
    IF doc = <<>> THEN <<>>
    ELSE LET f == Head(doc)
         IN  IF inside = ""
             THEN IF f.kind = "text" THEN f.chars \o VisibleText(Tail(doc), "")
                  ELSE IF f.kind = "open" /\ f.name \in {"script", "style"}
                  THEN VisibleText(Tail(doc), f.name)
                  ELSE VisibleText(Tail(doc), "")
             ELSE IF f.kind = "close" /\ f.name = inside
                  THEN VisibleText(Tail(doc), "")
                  ELSE VisibleText(Tail(doc), inside)

\* Every script or style element of the document is closed.
RECURSIVE ElementsClosed(_, _)
ElementsClosed(doc, inside) ==
    IF doc = <<>> THEN inside = ""
    ELSE LET f == Head(doc)
         IN  IF inside = ""
             THEN IF f.kind = "open" /\ f.name \in {"script", "style"}
                  THEN ElementsClosed(Tail(doc), f.name)
                  ELSE ElementsClosed(Tail(doc), "")
             ELSE IF f.kind = "close" /\ f.name = inside
                  THEN ElementsClosed(Tail(doc), "")
                  ELSE ElementsClosed(Tail(doc), inside)

\* C30: strip_html_tags drops everything between an opening <script> or
\* <style> tag and its matching closing tag and keeps the text outside tags
\* and outside such elements in order: its result is that text, with the
\* whitespace cleaned up.
C30_ScriptAndStyleDropped ==
    (IsSome(parser.text) /\ ElementsClosed(parser.doc, "")) =>
        Unwrap(parser.text)
            = join(split_whitespace(VisibleText(parser.doc, ""), 1, <<>>),
                   <<" ">>)

====
